---------------------------- MODULE Spec2Model ----------------------------
(***************************************************************************)
(* A model of the tinycbor parser cursor (cborparser.c), the encoder's     *)
(* bounded-buffer sink (cborencoder.c) and the chunked-string length       *)
(* arithmetic, written from the C sources.                                 *)
(*                                                                         *)
(* Conventions.                                                            *)
(*  - A pointer into the input is its offset from the buffer's first byte; *)
(*    parser->end is Len(buf).                                             *)
(*  - uint32_t values are kept modulo 2^32 in their two's-complement       *)
(*    representative, so UINT32_MAX is -1 and 0 - 1 = UINT32_MAX.          *)
(*  - An error code is the name of the CborError enumerator.               *)
(*  - Undefined behaviour is a choice the environment makes: a read past   *)
(*    the end of the buffer returns ub.oob, an uninitialised length is     *)
(*    ub.g, a store through a null pointer traps or not (ub.trap), and a   *)
(*    failed assert() aborts unless the build defines NDEBUG.              *)
(***************************************************************************)
EXTENDS Integers, Sequences, FiniteSets, TLC

VARIABLES
    buf,        \* the input buffer handed to cbor_parser_init
    NDEBUG,     \* build configuration: assert() compiled out
    stack,      \* the cursors in use: stack[1] is the root, the last the innermost
    err,        \* the value the last operation returned
    op,         \* the last operation and what it was applied to
    aborted,    \* the process was ended by a failed assert() or a trap
    enc,        \* the encoders in use: enc[1] is the root, the last the innermost
    encBuf,     \* the buffer given to cbor_encoder_init: its address and size
    encMem,     \* the bytes written into the buffer, from its start
    encErr,     \* the value the last encoder operation returned
    encOp,      \* the last encoder operation and the number of operations made
    encTotal,   \* the bytes the encodings of the operations made take
    strTotal,   \* total-length calculation: the length stored in *buflen
    strErr,     \* total-length calculation: the value returned, once it returned
    chunks,     \* total-length calculation: the chunk lengths of the string
    strN,       \* total-length calculation: the chunks added when it returned
    HAS_BUILTIN, \* build configuration: __builtin_add_overflow is used
    CBOR_PARSER_NO_STRICT_CHECKS, \* build configuration of the parser
    CBOR_ENCODER_NO_CHECK_USER,   \* build configuration of the encoder
    parserError, \* parser->error of the revisions that latch the error
    encItems,   \* per encoder in use: the length it was created with, its items
    encExpected, \* the bytes of the operations made while all returned no error
    encArg,     \* the argument of the last encode call
    strIn,      \* the string the input holds: its type, form and chunks
    strOut,     \* the string call made, its *buflen on entry, the bytes copied
    fr,         \* the buffered file reader: the file, the read window, the cursor
    fw,         \* the buffered file writer: its buffer, the file, the bytes passed
    tenc,       \* the TinyCBOREncoder object
    tpar        \* the TinyCBORParser object

pvars == <<buf, NDEBUG, stack, err, op, aborted, CBOR_PARSER_NO_STRICT_CHECKS, parserError>>
evars == <<enc, encBuf, encMem, encErr, encOp, encTotal, encItems, encExpected, encArg,
          CBOR_ENCODER_NO_CHECK_USER>>
svars == <<chunks, strTotal, strErr, strN, HAS_BUILTIN, strIn, strOut>>
xvars == <<fr, fw, tenc, tpar>>
vars == <<pvars, evars, svars, xvars>>

---------------------------------------------------------------------------
(* Wire constants (cborconstants_p.h) and the public enumerations.         *)

SmallValueMask == 31
Value8Bit == 24
Value16Bit == 25
Value32Bit == 26
Value64Bit == 27
IndefiniteLength == 31
BreakByte == 255

FalseValue == 20
TrueValue == 21
NullValue == 22
UndefinedValue == 23
SimpleTypeInNextByte == 24
HalfPrecisionFloat == 25
SinglePrecisionFloat == 26
DoublePrecisionFloat == 27
Break == 31

UnsignedIntegerType == 0
NegativeIntegerType == 1
ByteStringType == 2
TextStringType == 3
ArrayType == 4
MapType == 5
TagType == 6
SimpleTypesType == 7

CborIntegerType == 0
CborByteStringType == 64
CborTextStringType == 96
CborArrayType == 128
CborMapType == 160
CborTagType == 192
CborSimpleType == 224
CborBooleanType == 245
CborInvalidType == 255

CborIteratorFlag_IntegerValueTooLarge == 1
CborIteratorFlag_NegativeInteger == 2
CborIteratorFlag_UnknownLength == 4

UINT32_MAX == -1

\* descriptor & MajorTypeMask, descriptor & SmallValueMask, type >> MajorTypeShift
MajorTypeOf(b) == (b \div 32) * 32
SmallValueOf(b) == b % (SmallValueMask + 1)
MajorOf(b) == b \div 32

\* uint32_t decrement: 0 - 1 wraps to UINT32_MAX
DecU32(v) == v - 1

---------------------------------------------------------------------------
(* The input buffer as memory.                                             *)

End == Len(buf)
Read(p, ub) == IF p >= 0 /\ p < Len(buf) THEN buf[p + 1] ELSE ub.oob

RECURSIVE BigEndian(_, _, _)
BigEndian(p, n, ub) ==
    IF n = 0 THEN 0 ELSE BigEndian(p, n - 1, ub) * 256 + Read(p + n - 1, ub)

get16(p, ub) == BigEndian(p, 2, ub)
get32(p, ub) == BigEndian(p, 4, ub)
get64(p, ub) == BigEndian(p, 8, ub)

---------------------------------------------------------------------------
(* cborparser.c                                                            *)

\* The result leaves len at -1 when the function returned before storing
\* *len: the caller's variable then keeps its former (uninitialised) value.
extract_number(ptr, ub) ==
    LET additional_information == SmallValueOf(Read(ptr, ub))
        p1 == ptr + 1
        bytesNeeded == 2 ^ (additional_information - Value8Bit)
    IN  IF additional_information < Value8Bit
        THEN [err |-> "CborNoError", ptr |-> p1, len |-> additional_information]
        ELSE IF additional_information > Value64Bit
        THEN [err |-> "CborErrorIllegalNumber", ptr |-> p1, len |-> -1]
        ELSE IF p1 + bytesNeeded > End
        THEN [err |-> "CborErrorUnexpectedEOF", ptr |-> p1, len |-> -1]
        ELSE [err |-> "CborNoError", ptr |-> p1 + bytesNeeded,
              len |-> BigEndian(p1, bytesNeeded, ub)]

\* size_t of the platform modelled: 16 bits (AVR, MSP430), so that its
\* overflow is within the integers TLC computes with.
SIZE_MAX == 65535

\* *len = v; if (v != *len) return CborErrorDataTooLarge;
extract_length(ptr, ub) ==
    LET r == extract_number(ptr, ub)
    IN  IF r.err = "CborNoError" /\ r.len > SIZE_MAX
        THEN [r EXCEPT !.err = "CborErrorDataTooLarge", !.len = r.len % (SIZE_MAX + 1)]
        ELSE r

is_fixed_type(type) ==
    type \notin {CborTextStringType, CborByteStringType, CborArrayType, CborMapType}

cbor_value_is_container(it) == it.type \in {CborArrayType, CborMapType}

cbor_value_at_end(it) == it.remaining = 0

cbor_value_is_length_known(it) == CborIteratorFlag_UnknownLength \notin it.flags

\* The major-type-7 switch of preparse_value: the error it returns, or the
\* type and extra it leaves.
SimpleTypesSwitch(it, descriptor, type, ub) ==
    CASE descriptor = FalseValue ->
            [err |-> "CborNoError", type |-> CborBooleanType, extra |-> 0]
      [] descriptor \in {TrueValue, NullValue, UndefinedValue, HalfPrecisionFloat,
                         SinglePrecisionFloat, DoublePrecisionFloat} ->
            [err |-> "CborNoError", type |-> Read(it.ptr, ub), extra |-> descriptor]
      [] descriptor = SimpleTypeInNextByte ->
            IF ~CBOR_PARSER_NO_STRICT_CHECKS /\ Read(it.ptr + 1, ub) < 32
            THEN [err |-> "CborErrorIllegalSimpleType", type |-> type, extra |-> descriptor]
            ELSE [err |-> "CborNoError", type |-> type, extra |-> descriptor]
      [] descriptor \in {28, 29, 30} ->
            [err |-> "CborErrorUnknownType", type |-> type, extra |-> descriptor]
      [] descriptor = Break ->
            [err |-> "CborErrorUnexpectedBreak", type |-> type, extra |-> descriptor]
      [] OTHER ->
            [err |-> "CborNoError", type |-> type, extra |-> descriptor]

\* a preparse_value that accepts an indefinite-length head without setting
\* CborIteratorFlag_UnknownLength
preparse_value_no_flag(it, ub) ==
    IF it.ptr = End
    THEN [err |-> "CborErrorUnexpectedEOF", it |-> it]
    ELSE
    LET byte == Read(it.ptr, ub)
        type == MajorTypeOf(byte)
        descriptor == SmallValueOf(byte)
        it0 == [it EXCEPT !.flags = {}, !.type = CborInvalidType, !.extra = descriptor]
        bytesNeeded == IF descriptor < Value8Bit THEN 0 ELSE 2 ^ (descriptor - Value8Bit)
        negative == MajorOf(type) = NegativeIntegerType
        sw == IF MajorOf(type) = SimpleTypesType
              THEN SimpleTypesSwitch(it, descriptor, type, ub)
              ELSE [err |-> "CborNoError",
                    type |-> IF negative THEN CborIntegerType ELSE type,
                    extra |-> descriptor]
        it1 == [it0 EXCEPT !.flags = IF negative THEN {CborIteratorFlag_NegativeInteger} ELSE {},
                           !.extra = sw.extra]
    IN  IF descriptor = IndefiniteLength /\ ~is_fixed_type(type)
        THEN [err |-> "CborNoError",
              it |-> [it0 EXCEPT !.type = type]]
        ELSE IF it.ptr + 1 + bytesNeeded > End
        THEN [err |-> "CborErrorUnexpectedEOF", it |-> it0]
        ELSE IF sw.err # "CborNoError"
        THEN [err |-> sw.err, it |-> it1]
        ELSE IF descriptor > Value64Bit
        THEN [err |-> "CborErrorIllegalNumber", it |-> it1]
        ELSE IF descriptor < Value8Bit
        THEN [err |-> "CborNoError", it |-> [it1 EXCEPT !.type = sw.type]]
        ELSE IF descriptor = Value8Bit
        THEN [err |-> "CborNoError",
              it |-> [it1 EXCEPT !.type = sw.type, !.extra = Read(it.ptr + 1, ub)]]
        ELSE IF descriptor = Value16Bit
        THEN [err |-> "CborNoError",
              it |-> [it1 EXCEPT !.type = sw.type, !.extra = get16(it.ptr + 1, ub)]]
        ELSE [err |-> "CborNoError",
              it |-> [it1 EXCEPT !.type = sw.type,
                                 !.flags = @ \cup {CborIteratorFlag_IntegerValueTooLarge}]]

preparse_value(it, ub) ==
    IF it.ptr = End
    THEN [err |-> "CborErrorUnexpectedEOF", it |-> it]
    ELSE
    LET byte == Read(it.ptr, ub)
        type == MajorTypeOf(byte)
        descriptor == SmallValueOf(byte)
        it0 == [it EXCEPT !.flags = {}, !.type = CborInvalidType, !.extra = descriptor]
        bytesNeeded == IF descriptor < Value8Bit THEN 0 ELSE 2 ^ (descriptor - Value8Bit)
        negative == MajorOf(type) = NegativeIntegerType
        sw == IF MajorOf(type) = SimpleTypesType
              THEN SimpleTypesSwitch(it, descriptor, type, ub)
              ELSE [err |-> "CborNoError",
                    type |-> IF negative THEN CborIntegerType ELSE type,
                    extra |-> descriptor]
        it1 == [it0 EXCEPT !.flags = IF negative THEN {CborIteratorFlag_NegativeInteger} ELSE {},
                           !.extra = sw.extra]
    IN  IF descriptor = IndefiniteLength /\ ~is_fixed_type(type)
        THEN [err |-> "CborNoError",
              it |-> [it0 EXCEPT !.flags = {CborIteratorFlag_UnknownLength}, !.type = type]]
        ELSE IF it.ptr + 1 + bytesNeeded > End
        THEN [err |-> "CborErrorUnexpectedEOF", it |-> it0]
        ELSE IF sw.err # "CborNoError"
        THEN [err |-> sw.err, it |-> it1]
        ELSE IF descriptor > Value64Bit
        THEN [err |-> "CborErrorIllegalNumber", it |-> it1]
        ELSE IF descriptor < Value8Bit
        THEN [err |-> "CborNoError", it |-> [it1 EXCEPT !.type = sw.type]]
        ELSE IF descriptor = Value8Bit
        THEN [err |-> "CborNoError",
              it |-> [it1 EXCEPT !.type = sw.type, !.extra = Read(it.ptr + 1, ub)]]
        ELSE IF descriptor = Value16Bit
        THEN [err |-> "CborNoError",
              it |-> [it1 EXCEPT !.type = sw.type, !.extra = get16(it.ptr + 1, ub)]]
        ELSE [err |-> "CborNoError",
              it |-> [it1 EXCEPT !.type = sw.type,
                                 !.flags = @ \cup {CborIteratorFlag_IntegerValueTooLarge}]]

preparse_next_value(it, ub) ==
    LET it0 == [it EXCEPT !.type = CborInvalidType]
        it1 == [it0 EXCEPT !.remaining = DecU32(@)]
    IN  IF it0.remaining # UINT32_MAX
        THEN IF it1.remaining = 0
             THEN [err |-> IF it1.ptr = End THEN "CborNoError" ELSE "CborErrorGarbageAtEnd",
                   it |-> it1]
             ELSE preparse_value(it1, ub)
        ELSE preparse_value(it0, ub)

\* assert(err == CborNoError): a debug build aborts; under NDEBUG the walk
\* goes on with length uninitialised.
advance_internal(it, ub) ==
    LET r == extract_number(it.ptr, ub)
        length == IF r.err = "CborNoError" THEN r.len ELSE ub.g
        p1 == IF ~is_fixed_type(it.type) THEN r.ptr + length ELSE r.ptr
        it1 == [it EXCEPT !.ptr = p1]
    IN  IF r.err # "CborNoError" /\ ~NDEBUG
        THEN [err |-> "Abort", it |-> it]
        ELSE IF ~is_fixed_type(it.type) /\ length > SIZE_MAX /\ ~NDEBUG
        THEN [err |-> "Abort", it |-> it]
        ELSE IF it.remaining = UINT32_MAX /\ Read(p1, ub) = BreakByte
        THEN [err |-> "CborNoError", it |-> [it1 EXCEPT !.remaining = 0]]
        ELSE preparse_next_value(it1, ub)

\* a _cbor_value_decode_int64_internal that reads four bytes whatever the width
_cbor_value_decode_int64_internal_32(value, ub) ==
    get32(value.ptr + 1, ub)

_cbor_value_decode_int64_internal(value, ub) ==
    IF SmallValueOf(Read(value.ptr, ub)) = Value32Bit
    THEN get32(value.ptr + 1, ub)
    ELSE get64(value.ptr + 1, ub)

_cbor_value_extract_int64_helper(value, ub) ==
    IF CborIteratorFlag_IntegerValueTooLarge \in value.flags
    THEN _cbor_value_decode_int64_internal(value, ub)
    ELSE value.extra

\* t0 is what the caller's CborValue held in its type field before the call.
cbor_parser_init(t0, ub) ==
    preparse_value([ptr |-> 0, remaining |-> 1, extra |-> 0, type |-> t0, flags |-> {}], ub)

\* preparse_value of the earlier revision kept in src/cborparser.c: it returns
\* nothing, latches the error in the parser and sets the type to the invalid
\* sentinel on every error path.
cborparser_preparse_value(it, ub) ==
    LET error(e, v) == [err |-> e, it |-> [v EXCEPT !.type = CborInvalidType]]
        byte == Read(it.ptr, ub)
        major == MajorOf(byte)
        descriptor == SmallValueOf(byte)
        it0 == [it EXCEPT !.type = MajorTypeOf(byte), !.flags = {}, !.extra = descriptor]
        next == Read(it.ptr + 1, ub)
        \* the value after the switch, or the error it jumps to
        sw == CASE major = NegativeIntegerType ->
                      [err |-> "CborNoError",
                       it |-> [it0 EXCEPT !.flags = {CborIteratorFlag_NegativeInteger}]]
                 [] major = SimpleTypesType /\ descriptor = FalseValue ->
                      [err |-> "CborNoError",
                       it |-> [it0 EXCEPT !.extra = 0, !.type = descriptor]]
                 [] major = SimpleTypesType
                    /\ descriptor \in {TrueValue, NullValue, UndefinedValue,
                                       HalfPrecisionFloat, SinglePrecisionFloat,
                                       DoublePrecisionFloat} ->
                      [err |-> "CborNoError", it |-> [it0 EXCEPT !.type = descriptor]]
                 [] major = SimpleTypesType /\ descriptor = SimpleTypeInNextByte ->
                      IF it.ptr + 1 > End
                      THEN error("CborErrorUnexpectedEOF", it0)
                      ELSE IF ~CBOR_PARSER_NO_STRICT_CHECKS /\ next < 32
                      THEN error("CborErrorIllegalSimpleType", [it0 EXCEPT !.extra = next])
                      ELSE error("CborErrorUnknownType", [it0 EXCEPT !.extra = next])
                 [] major = SimpleTypesType /\ descriptor \in {28, 29, 30} ->
                      error("CborErrorUnknownType", it0)
                 [] major = SimpleTypesType /\ descriptor = Break ->
                      error("CborErrorUnexpectedBreak", it0)
                 [] major \in {ByteStringType, TextStringType, ArrayType, MapType}
                    /\ descriptor = IndefiniteLength ->
                      [err |-> "CborNoError",
                       it |-> [it0 EXCEPT !.flags = {CborIteratorFlag_UnknownLength}]]
                 [] OTHER -> [err |-> "CborNoError", it |-> it0]
        bytesNeeded == 2 ^ (descriptor - Value8Bit)
    IN  IF it.ptr = End THEN error("CborErrorUnexpectedEOF", it)
        ELSE IF sw.err # "CborNoError" THEN sw
        ELSE IF descriptor < Value8Bit THEN sw
        ELSE IF descriptor > Value64Bit THEN error("CborErrorIllegalNumber", sw.it)
        ELSE IF it.ptr + 1 + bytesNeeded > End THEN error("CborErrorUnexpectedEOF", sw.it)
        ELSE IF descriptor = Value8Bit
        THEN [err |-> "CborNoError", it |-> [sw.it EXCEPT !.extra = next]]
        ELSE IF descriptor = Value16Bit
        THEN [err |-> "CborNoError", it |-> [sw.it EXCEPT !.extra = get16(it.ptr + 1, ub)]]
        ELSE [err |-> "CborNoError",
              it |-> [sw.it EXCEPT !.flags = @ \cup {CborIteratorFlag_IntegerValueTooLarge}]]

\* cbor_parser_init of that revision
cborparser_cbor_parser_init(t0, ub) ==
    cborparser_preparse_value(
        [ptr |-> 0, remaining |-> 1, extra |-> 0, type |-> t0, flags |-> {}], ub)

cbor_value_advance_fixed(it, ub) ==
    IF it.remaining = 0
    THEN [err |-> "CborErrorAdvancePastEOF", it |-> it]
    ELSE advance_internal(it, ub)

cbor_value_enter_container(it, ub) ==
    LET len == _cbor_value_extract_int64_helper(it, ub)
    IN  IF CborIteratorFlag_UnknownLength \in it.flags
        THEN advance_internal([it EXCEPT !.remaining = UINT32_MAX], ub)
        ELSE IF len = UINT32_MAX
        THEN [err |-> "CborErrorDataTooLarge", it |-> [it EXCEPT !.remaining = len]]
        ELSE advance_internal([it EXCEPT !.remaining = len], ub)

cbor_value_leave_container(it, recursed, ub) ==
    advance_internal([it EXCEPT !.ptr = recursed.ptr], ub)

\* an add_check_overflow whose portable branch never reports an overflow
add_check_overflow_unchecked(v1, v2) ==
    [r |-> (v1 + v2) % (SIZE_MAX + 1),
     ret |-> IF HAS_BUILTIN THEN v1 + v2 > SIZE_MAX ELSE TRUE]

\* The later compilersupport_p.h: the builtin returns true when the sum
\* overflowed, the portable branch returns true when it did not.
add_check_overflow(v1, v2) ==
    [r |-> (v1 + v2) % (SIZE_MAX + 1),
     ret |-> IF HAS_BUILTIN THEN v1 + v2 > SIZE_MAX ELSE v1 <= SIZE_MAX - v2]

\* The earlier compilersupport_p.h kept in src/: both branches return true
\* when the sum overflowed.
compilersupport_add_check_overflow(v1, v2) ==
    [r |-> (v1 + v2) % (SIZE_MAX + 1),
     ret |-> IF HAS_BUILTIN THEN v1 + v2 > SIZE_MAX
                            ELSE v1 > (v1 + v2) % (SIZE_MAX + 1)]

\* The accumulation of the chunked branch of cbor_value_copy_string called
\* without a buffer: chs are the lengths extract_length yields for the chunks
\* up to the break, earlier says which compilersupport_p.h the build uses.
RECURSIVE ChunkedLength(_, _, _, _)
ChunkedLength(chs, i, total, earlier) ==
    IF i > Len(chs)
    THEN [err |-> "CborNoError", total |-> total, n |-> i - 1]
    ELSE LET sum == IF earlier THEN compilersupport_add_check_overflow(total, chs[i])
                               ELSE add_check_overflow(total, chs[i])
         IN  IF ~sum.ret
             THEN [err |-> "CborErrorDataTooLarge", total |-> total, n |-> i - 1]
             ELSE ChunkedLength(chs, i + 1, sum.r, earlier)

\* memcpy(dst, ptr, n): the n bytes read
RECURSIVE Bytes(_, _, _)
Bytes(p, n, ub) == IF n = 0 THEN <<>> ELSE <<Read(p, ub)>> \o Bytes(p + 1, n - 1, ub)

\* The chunk loop of cbor_value_copy_string. buffer: the caller gave a
\* buffer; cap: *buflen on entry. The result's ptr is where the walk stopped.
RECURSIVE ChunkLoop(_, _, _, _, _, _, _)
ChunkLoop(value, ptr, total, out, buffer, cap, ub) ==
    IF ptr = End
    THEN [err |-> "CborErrorUnexpectedEOF", ptr |-> ptr, total |-> total, out |-> out]
    ELSE IF Read(ptr, ub) = BreakByte
    THEN [err |-> "CborNoError", ptr |-> ptr + 1, total |-> total, out |-> out]
    ELSE IF MajorTypeOf(Read(ptr, ub)) # value.type
    THEN [err |-> "CborErrorIllegalType", ptr |-> ptr, total |-> total, out |-> out]
    ELSE
    LET r == extract_length(ptr, ub)
        sum == add_check_overflow(total, r.len)
    IN  IF r.err # "CborNoError"
        THEN [err |-> r.err, ptr |-> r.ptr, total |-> total, out |-> out]
        ELSE IF ~sum.ret
        THEN [err |-> "CborErrorDataTooLarge", ptr |-> r.ptr, total |-> total, out |-> out]
        ELSE IF buffer /\ cap < sum.r
        THEN [err |-> "CborErrorOutOfMemory", ptr |-> r.ptr, total |-> total, out |-> out]
        ELSE ChunkLoop(value, r.ptr + r.len, sum.r,
                       IF buffer THEN out \o Bytes(r.ptr, r.len, ub) ELSE out,
                       buffer, cap, ub)

\* The string walk of cbor_value_copy_string, up to "is there enough room
\* for the ending NUL byte".
StringWalk(value, buffer, cap, ub) ==
    IF cbor_value_is_length_known(value)
    THEN LET r == extract_length(value.ptr, ub)
         IN  IF r.err # "CborNoError"
             THEN [err |-> r.err, ptr |-> r.ptr, total |-> 0, out |-> <<>>]
             ELSE IF buffer /\ cap < r.len
             THEN [err |-> "CborErrorOutOfMemory", ptr |-> r.ptr, total |-> r.len, out |-> <<>>]
             ELSE IF buffer
             THEN [err |-> "CborNoError", ptr |-> r.ptr + r.len, total |-> r.len,
                   out |-> Bytes(r.ptr, r.len, ub)]
             ELSE [err |-> "CborNoError", ptr |-> r.ptr, total |-> r.len, out |-> <<>>]
    ELSE ChunkLoop(value, value.ptr + 1, 0, <<>>, buffer, cap, ub)

\* buffer: the caller gave a buffer; cap: *buflen on entry, or -1 when
\* buflen is a null pointer; next: the caller gave a next cursor.
\* The result: the error, *buflen and the buffer's bytes on return, and *next.
cbor_value_copy_string(value, buffer, cap, next, ub) ==
    LET w == StringWalk(value, buffer, cap, ub)
        out == IF buffer /\ cap > w.total THEN w.out \o <<0>> ELSE w.out
        n == preparse_next_value([value EXCEPT !.ptr = w.ptr], ub)
    IN  IF w.err # "CborNoError"
        THEN [err |-> w.err, buflen |-> cap, out |-> w.out, it |-> value]
        ELSE IF cap = -1 /\ ub.trap
        THEN [err |-> "Abort", buflen |-> cap, out |-> out, it |-> value]
        ELSE IF next
        THEN [err |-> n.err, buflen |-> w.total, out |-> out, it |-> n.it]
        ELSE [err |-> "CborNoError", buflen |-> w.total, out |-> out, it |-> value]

cbor_value_calculate_string_length(value, ub) ==
    cbor_value_copy_string(value, FALSE, 0, FALSE, ub)

\* cbor_value_advance: the loop over the entered container, then the
\* function itself. The asserts on the recursed cursor are the function's own.
RECURSIVE AdvanceLoop(_, _, _)
RECURSIVE cbor_value_advance(_, _)
AdvanceLoop(it, recursed, ub) ==
    IF cbor_value_at_end(recursed)
    THEN cbor_value_leave_container(it, recursed, ub)
    ELSE IF recursed.type = CborInvalidType /\ ~NDEBUG
    THEN [err |-> "Abort", it |-> it]
    ELSE LET r == cbor_value_advance(recursed, ub)
         IN  IF r.err # "CborNoError"
             THEN [err |-> r.err, it |-> it]
             ELSE AdvanceLoop(it, r.it, ub)

cbor_value_advance(it, ub) ==
    IF it.remaining = 0
    THEN [err |-> "CborErrorAdvancePastEOF", it |-> it]
    ELSE IF is_fixed_type(it.type)
    THEN advance_internal(it, ub)
    ELSE IF ~cbor_value_is_container(it)
    THEN LET r == cbor_value_copy_string(it, FALSE, -1, TRUE, ub)
         IN  [err |-> r.err, it |-> r.it]
    ELSE LET e == cbor_value_enter_container(it, ub)
         IN  IF e.err # "CborNoError"
             THEN [err |-> e.err, it |-> it]
             ELSE AdvanceLoop(it, e.it, ub)

---------------------------------------------------------------------------
(* The encoder (cborencoder.c as embedded in examples/simplereader.c).     *)
(* Pointers are addresses, NULL is 0, and arithmetic on a null pointer is  *)
(* arithmetic on the address, as the code relies on.  An encoder is        *)
(* [ptr, end, flags]; every operator returns the encoder and the buffer    *)
(* contents it leaves, and the value it returns.                           *)

NULL == 0
MajorTypeShift == 5
CborIndefiniteLength == SIZE_MAX

cbor_encoder_init(buffer, size, flags) ==
    [ptr |-> buffer, end |-> buffer + size, flags |-> flags]

\* memcpy(encoder->ptr, data, len) into the buffer
Store(mem, encoder, data) ==
    LET off == encoder.ptr - encBuf.base
        n == IF off + Len(data) > Len(mem) THEN off + Len(data) ELSE Len(mem)
    IN  [i \in 1..n |-> IF i > off /\ i <= off + Len(data) THEN data[i - off]
                        ELSE IF i <= Len(mem) THEN mem[i] ELSE 0]

\* an append_to_buffer that forgets the room that was left
append_to_buffer_no_room(encoder, mem, data) ==
    IF encoder.end - encoder.ptr - Len(data) < 0
    THEN [err |-> "CborErrorOutOfMemory", mem |-> mem,
          encoder |-> [encoder EXCEPT
                          !.end = NULL,
                          !.ptr = (IF encoder.end # NULL THEN NULL ELSE @) + Len(data)]]
    ELSE [err |-> "CborNoError", mem |-> Store(mem, encoder, data),
          encoder |-> [encoder EXCEPT !.ptr = @ + Len(data)]]

append_to_buffer(encoder, mem, data) ==
    IF encoder.end - encoder.ptr - Len(data) < 0
    THEN LET len == IF encoder.end # NULL
                    THEN Len(data) - (encoder.end - encoder.ptr) ELSE Len(data)
         IN  [err |-> "CborErrorOutOfMemory", mem |-> mem,
              encoder |-> [encoder EXCEPT
                              !.end = NULL,
                              !.ptr = (IF encoder.end # NULL THEN NULL ELSE @) + len]]
    ELSE [err |-> "CborNoError", mem |-> Store(mem, encoder, data),
          encoder |-> [encoder EXCEPT !.ptr = @ + Len(data)]]

append_byte_to_buffer(encoder, mem, byte) ==
    IF encoder.end <= encoder.ptr
    THEN [err |-> "CborErrorOutOfMemory", mem |-> mem,
          encoder |-> [encoder EXCEPT
                          !.end = NULL,
                          !.ptr = (IF encoder.end # NULL THEN NULL ELSE @) + 1]]
    ELSE [err |-> "CborNoError", mem |-> Store(mem, encoder, <<byte>>),
          encoder |-> [encoder EXCEPT !.ptr = @ + 1]]

\* A uint64_t is kept as its four 16-bit words, the least significant first.
\* The uint64_t a size_t, uint8_t or small constant converts to:
uint64(n) == <<n % 65536, n \div 65536, 0, 0>>

\* put64: the eight bytes of v in network byte order
put64(v) ==
    <<v[4] \div 256, v[4] % 256, v[3] \div 256, v[3] % 256,
      v[2] \div 256, v[2] % 256, v[1] \div 256, v[1] % 256>>

\* an encode_number that always uses the 64-bit form
encode_number_wide(encoder, mem, ui, shiftedMajorType) ==
    append_to_buffer(encoder, mem, <<shiftedMajorType + Value64Bit>> \o put64(ui))

\* buf[0] is never written before bufstart reaches it; the bytes appended are
\* those from bufstart to bufend.
encode_number(encoder, mem, ui, shiftedMajorType) ==
    LET buffer == <<0>> \o put64(ui)
        bufend == 9
        high == ui[2] # 0 \/ ui[3] # 0 \/ ui[4] # 0
        more == (IF high \/ ui[1] > 255 THEN 1 ELSE 0) + (IF high THEN 1 ELSE 0)
                + (IF ui[3] # 0 \/ ui[4] # 0 THEN 1 ELSE 0)
        bufstart == bufend - 2 ^ more
    IN  IF ~high /\ ui[1] < Value8Bit
        THEN append_to_buffer(encoder, mem, <<buffer[bufend] + shiftedMajorType>>)
        ELSE append_to_buffer(encoder, mem,
                 <<shiftedMajorType + Value8Bit + more>>
                     \o SubSeq(buffer, bufstart + 1, bufend))

cbor_encode_uint(encoder, mem, value) ==
    encode_number(encoder, mem, value, UnsignedIntegerType * 2 ^ MajorTypeShift)

\* value is an int64_t in two's complement; value >> 63 extends the sign.
cbor_encode_int(encoder, mem, value) ==
    LET negative == value[4] >= 32768
        majorType == IF negative THEN 32 ELSE 0
        ui == IF negative THEN [i \in 1..4 |-> 65535 - value[i]] ELSE value
    IN  encode_number(encoder, mem, ui, majorType)

cbor_encode_simple_value(encoder, mem, value) ==
    IF ~CBOR_ENCODER_NO_CHECK_USER /\ value >= HalfPrecisionFloat /\ value <= Break
    THEN [err |-> "CborErrorIllegalSimpleType", mem |-> mem, encoder |-> encoder]
    ELSE encode_number(encoder, mem, uint64(value), SimpleTypesType * 2 ^ MajorTypeShift)

cbor_encode_tag(encoder, mem, tag) ==
    encode_number(encoder, mem, tag, TagType * 2 ^ MajorTypeShift)

encode_string(encoder, mem, length, shiftedMajorType, string) ==
    LET head == encode_number(encoder, mem, uint64(length), shiftedMajorType)
    IN  append_to_buffer(head.encoder, head.mem, string)

cbor_encode_byte_string(encoder, mem, string) ==
    encode_string(encoder, mem, Len(string), ByteStringType * 2 ^ MajorTypeShift, string)

cbor_encode_text_string(encoder, mem, string) ==
    encode_string(encoder, mem, Len(string), TextStringType * 2 ^ MajorTypeShift, string)

\* The earlier encoder (cborencoder.c before the shortfall counter): an
\* append that does not fit leaves the encoder as it was.
cborencoder_append_to_buffer(encoder, mem, data) ==
    IF encoder.ptr + Len(data) > encoder.end
    THEN [err |-> "CborErrorOutOfMemory", mem |-> mem, encoder |-> encoder]
    ELSE [err |-> "CborNoError", mem |-> Store(mem, encoder, data),
          encoder |-> [encoder EXCEPT !.ptr = @ + Len(data)]]

cborencoder_encode_number(encoder, mem, ui, shiftedMajorType) ==
    LET high == ui[2] # 0 \/ ui[3] # 0 \/ ui[4] # 0
        bytes == put64(ui)
    IN  IF ~high /\ ui[1] < Value8Bit
        THEN cborencoder_append_to_buffer(encoder, mem, <<shiftedMajorType + ui[1]>>)
        ELSE IF ~high /\ ui[1] <= 255
        THEN cborencoder_append_to_buffer(encoder, mem,
                 <<shiftedMajorType + Value8Bit, ui[1]>>)
        ELSE IF ~high
        THEN cborencoder_append_to_buffer(encoder, mem,
                 <<shiftedMajorType + Value16Bit>> \o SubSeq(bytes, 7, 8))
        ELSE IF ui[3] = 0 /\ ui[4] = 0
        THEN cborencoder_append_to_buffer(encoder, mem,
                 <<shiftedMajorType + Value32Bit>> \o SubSeq(bytes, 5, 8))
        ELSE cborencoder_append_to_buffer(encoder, mem,
                 <<shiftedMajorType + Value64Bit>> \o bytes)

cborencoder_cbor_encode_uint(encoder, mem, value) ==
    cborencoder_encode_number(encoder, mem, value, UnsignedIntegerType * 2 ^ MajorTypeShift)

cborencoder_cbor_encode_simple_value(encoder, mem, value) ==
    IF ~CBOR_ENCODER_NO_CHECK_USER /\ value >= HalfPrecisionFloat /\ value <= Break
    THEN [err |-> "CborErrorIllegalSimpleType", mem |-> mem, encoder |-> encoder]
    ELSE cborencoder_encode_number(encoder, mem, uint64(value),
                                   SimpleTypesType * 2 ^ MajorTypeShift)

cborencoder_encode_string(encoder, mem, length, shiftedMajorType, string) ==
    LET head == cborencoder_encode_number(encoder, mem, uint64(length), shiftedMajorType)
    IN  IF head.err # "CborNoError" THEN head
        ELSE cborencoder_append_to_buffer(head.encoder, head.mem, string)

cborencoder_cbor_encode_byte_string(encoder, mem, string) ==
    cborencoder_encode_string(encoder, mem, Len(string),
                              ByteStringType * 2 ^ MajorTypeShift, string)

\* the value returned and the container encoder; the encoder itself is left
\* as the head append left it
create_container(encoder, mem, length, shiftedMajorType) ==
    LET head == IF length = CborIndefiniteLength
                THEN append_byte_to_buffer(encoder, mem, shiftedMajorType + IndefiniteLength)
                ELSE encode_number(encoder, mem, uint64(length), shiftedMajorType)
    IN  [err |-> "CborNoError", mem |-> head.mem, encoder |-> head.encoder,
         container |-> [head.encoder EXCEPT
                           !.flags = IF length = CborIndefiniteLength
                                     THEN CborIteratorFlag_UnknownLength ELSE 0]]

cbor_encoder_create_array(encoder, mem, length) ==
    create_container(encoder, mem, length, ArrayType * 2 ^ MajorTypeShift)

cbor_encoder_create_map(encoder, mem, length) ==
    create_container(encoder, mem, length, MapType * 2 ^ MajorTypeShift)

\* a cbor_encoder_close_container that never appends the break
cbor_encoder_close_container_no_break(encoder, mem, containerEncoder) ==
    [err |-> "CborNoError", mem |-> mem,
     encoder |-> [encoder EXCEPT !.ptr = containerEncoder.ptr,
                                 !.end = containerEncoder.end]]

cbor_encoder_close_container(encoder, mem, containerEncoder) ==
    LET e == [encoder EXCEPT !.ptr = containerEncoder.ptr, !.end = containerEncoder.end]
    IN  IF containerEncoder.flags = CborIteratorFlag_UnknownLength
        THEN append_byte_to_buffer(e, mem, BreakByte)
        ELSE [err |-> "CborNoError", mem |-> mem, encoder |-> e]

\* cbor.h of this revision is not part of the sources; the shortfall is what
\* the appends accumulate in ptr once end is null.
cbor_encoder_get_extra_bytes_needed(encoder) ==
    IF encoder.end # NULL THEN 0 ELSE encoder.ptr

---------------------------------------------------------------------------
(* The parser driven by a caller: cbor_parser_init, then any sequence of   *)
(* calls the API's preconditions (its asserts on the arguments) allow, on  *)
(* the innermost cursor, until a call returns an error.                    *)

MaxLen == 4
MaxDepth == 3

\* The bytes the inputs are made of: 0, h'00' (1 byte), an indefinite byte
\* string head, [] [_] [_, _] and [_ heads, a one-pair map head, tag 0, break.
ParseBytes == {0, 65, 95, 128, 129, 130, 159, 161, 192, 255}

RECURSIVE SeqsUpTo(_, _)
SeqsUpTo(S, n) ==
    IF n = 0 THEN {<<>>}
    ELSE LET shorter == SeqsUpTo(S, n - 1)
         IN  shorter \cup {Append(q, b) : q \in {x \in shorter : Len(x) = n - 1}, b \in S}

\* What undefined behaviour may yield.
UB == [oob : {0, 255}, g : {0, 2}, trap : BOOLEAN]

\* What an uninitialised CborValue may hold in its type field.
UninitTypes == {CborInvalidType, CborIntegerType}

Top == stack[Len(stack)]

\* The last call: its name, the depth of the cursor it was made on, and that
\* cursor's at_end(), position and remaining when the call was made.
NoOp == [name |-> "none", level |-> 0, atEnd |-> FALSE, from |-> 0, rem |-> 0]


Frame(it, decl, start, type) ==
    [it |-> it, adv |-> 0, decl |-> decl, start |-> start, type |-> type]

\* ok: every encoder call made so far returned CborNoError
\* oom: a call has returned CborErrorOutOfMemory; want: the bytes of all the
\* items so far
NoEncOp == [name |-> "none", n |-> 0, ok |-> TRUE, oom |-> FALSE, want |-> <<>>]

NoString == [type |-> 0, form |-> "none", chunks |-> <<>>]
NoCall == [name |-> "none", cap |-> 0, bytes |-> <<>>]

EncoderIdle ==
    /\ enc = <<>> /\ encBuf = [base |-> 0, size |-> 0] /\ encMem = <<>>
    /\ encErr = "CborNoError" /\ encOp = NoEncOp /\ encTotal = 0
    /\ encItems = <<>> /\ encExpected = <<>> /\ encArg = 0
    /\ CBOR_ENCODER_NO_CHECK_USER = FALSE

\* the objects of the examples and of the C++ wrapper, not in use
ExtraIdle == fr = <<>> /\ fw = <<>> /\ tenc = <<>> /\ tpar = <<>>

StringIdle ==
    /\ chunks = <<>> /\ strTotal = 0 /\ strErr = "none" /\ strN = 0
    /\ strIn = NoString /\ strOut = NoCall

Idle ==
    /\ EncoderIdle
    /\ StringIdle

ParserIdle ==
    /\ buf = <<>> /\ NDEBUG = FALSE /\ stack = <<>> /\ err = "CborNoError"
    /\ op = NoOp /\ aborted = FALSE
    /\ CBOR_PARSER_NO_STRICT_CHECKS = FALSE /\ parserError = "CborNoError"

Init ==
    /\ ExtraIdle
    /\ buf \in SeqsUpTo(ParseBytes, MaxLen)
    /\ NDEBUG \in BOOLEAN
    /\ HAS_BUILTIN \in BOOLEAN
    /\ stack = <<>>
    /\ err = "CborNoError"
    /\ op = NoOp
    /\ aborted = FALSE
    /\ CBOR_PARSER_NO_STRICT_CHECKS = FALSE
    /\ parserError = "CborNoError"
    /\ Idle

Running == stack # <<>> /\ err = "CborNoError" /\ ~aborted

\* The call returned r on the innermost cursor.
Returned(name, r, counts) ==
    /\ err' = r.err
    /\ aborted' = (r.err = "Abort")
    /\ op' = [name |-> name, level |-> Len(stack), atEnd |-> cbor_value_at_end(Top.it),
              from |-> Top.it.ptr, rem |-> Top.it.remaining]
    /\ stack' = [stack EXCEPT ![Len(stack)] =
                    [@ EXCEPT !.it = r.it,
                              !.adv = IF counts /\ r.err = "CborNoError" THEN @ + 1 ELSE @]]

ParserInit ==
    /\ stack = <<>> /\ ~aborted /\ op.name = "none"
    /\ \E t0 \in UninitTypes, ub \in UB :
          LET r == cbor_parser_init(t0, ub)
          IN  /\ stack' = <<Frame(r.it, 1, 0, CborInvalidType)>>
              /\ err' = r.err
              /\ aborted' = FALSE
              /\ op' = [NoOp EXCEPT !.name = "cbor_parser_init", !.level = 1]
    /\ UNCHANGED <<buf, NDEBUG, CBOR_PARSER_NO_STRICT_CHECKS, parserError, evars, svars, xvars>>

AdvanceFixed ==
    /\ Running
    /\ Top.it.type # CborInvalidType /\ is_fixed_type(Top.it.type)
    /\ \E ub \in UB : Returned("cbor_value_advance_fixed", cbor_value_advance_fixed(Top.it, ub), TRUE)
    /\ UNCHANGED <<buf, NDEBUG, CBOR_PARSER_NO_STRICT_CHECKS, parserError, evars, svars, xvars>>

Advance ==
    /\ Running
    /\ Top.it.type # CborInvalidType
    /\ \E ub \in UB : Returned("cbor_value_advance", cbor_value_advance(Top.it, ub), TRUE)
    /\ UNCHANGED <<buf, NDEBUG, CBOR_PARSER_NO_STRICT_CHECKS, parserError, evars, svars, xvars>>

EnterContainer ==
    /\ Running
    /\ cbor_value_is_container(Top.it)
    /\ Len(stack) < MaxDepth
    /\ \E ub \in UB :
          LET r == cbor_value_enter_container(Top.it, ub)
              decl == IF cbor_value_is_length_known(Top.it)
                      THEN _cbor_value_extract_int64_helper(Top.it, ub) ELSE -1
          IN  /\ stack' = Append(stack, Frame(r.it, decl, Top.it.ptr, Top.it.type))
              /\ err' = r.err
              /\ aborted' = (r.err = "Abort")
              /\ op' = [name |-> "cbor_value_enter_container", level |-> Len(stack) + 1,
                        atEnd |-> FALSE, from |-> Top.it.ptr, rem |-> Top.it.remaining]
    /\ UNCHANGED <<buf, NDEBUG, CBOR_PARSER_NO_STRICT_CHECKS, parserError, evars, svars, xvars>>

LeaveContainer ==
    /\ Running
    /\ Len(stack) >= 2
    /\ cbor_value_is_container(stack[Len(stack) - 1].it)
    /\ cbor_value_at_end(Top.it)
    /\ \E ub \in UB :
          LET parent == stack[Len(stack) - 1]
              r == cbor_value_leave_container(parent.it, Top.it, ub)
          IN  /\ stack' = [SubSeq(stack, 1, Len(stack) - 1) EXCEPT ![Len(stack) - 1] =
                              [@ EXCEPT !.it = r.it,
                                        !.adv = IF r.err = "CborNoError" THEN @ + 1 ELSE @]]
              /\ err' = r.err
              /\ aborted' = (r.err = "Abort")
              /\ op' = [name |-> "cbor_value_leave_container", level |-> Len(stack) - 1,
                        atEnd |-> FALSE, from |-> parent.it.ptr,
                        rem |-> parent.it.remaining]
    /\ UNCHANGED <<buf, NDEBUG, CBOR_PARSER_NO_STRICT_CHECKS, parserError, evars, svars, xvars>>

Next ==
    \/ ParserInit
    \/ AdvanceFixed
    \/ Advance
    \/ EnterContainer
    \/ LeaveContainer

Spec == Init /\ [][Next]_vars

---------------------------------------------------------------------------
(* One head: cbor_parser_init of either revision on a buffer that holds    *)
(* one head byte and some follow-on bytes, or nothing.                     *)

\* every major type with the additional information 0, 23 and 24..31
HeadBytes == {32 * m + ai : m \in 0..7, ai \in {0, 23} \cup (24..31)}
FollowLens == {0, 1, 2, 3, 4, 7, 8, 15, 16, 32, 64, 128}
FollowBytes == {0, 32}

HeadInputs ==
    {<<>>} \cup {<<h>> \o [i \in 1..n |-> f] :
                    h \in HeadBytes, n \in FollowLens, f \in FollowBytes}

InitHead ==
    /\ ExtraIdle
    /\ buf \in HeadInputs
    /\ NDEBUG \in BOOLEAN
    /\ HAS_BUILTIN = FALSE
    /\ stack = <<>>
    /\ err = "CborNoError"
    /\ op = NoOp
    /\ aborted = FALSE
    /\ CBOR_PARSER_NO_STRICT_CHECKS \in BOOLEAN
    /\ parserError = "CborNoError"
    /\ Idle

ParserInitC ==
    /\ stack = <<>> /\ ~aborted /\ op.name = "none"
    /\ \E t0 \in UninitTypes, ub \in UB :
          LET r == cborparser_cbor_parser_init(t0, ub)
          IN  /\ stack' = <<Frame(r.it, 1, 0, CborInvalidType)>>
              /\ err' = r.err
              /\ aborted' = FALSE
              /\ op' = [NoOp EXCEPT !.name = "cbor_parser_init", !.level = 1]
              /\ parserError' = r.err
    /\ UNCHANGED <<buf, NDEBUG, CBOR_PARSER_NO_STRICT_CHECKS, evars, svars, xvars>>

NextHead == ParserInit \/ ParserInitC

SpecHead == InitHead /\ [][NextHead]_vars

---------------------------------------------------------------------------
(* The total length of a chunked string: cbor_value_calculate_string_length *)
(* on a string given by the lengths of its chunks, built against either    *)
(* compilersupport_p.h.                                                    *)

MaxChunks == 3
ChunkLens == {0, 1, 255, 32768, 65535}

InitLen ==
    /\ ExtraIdle
    /\ chunks \in SeqsUpTo(ChunkLens, MaxChunks)
    /\ HAS_BUILTIN \in BOOLEAN
    /\ strTotal = 0 /\ strErr = "none" /\ strN = 0
    /\ strIn = NoString /\ strOut = NoCall
    /\ ParserIdle
    /\ EncoderIdle

CalculateStringLength ==
    /\ strErr = "none"
    /\ LET r == ChunkedLength(chunks, 1, 0, FALSE)
       IN  /\ strErr' = r.err
           /\ strN' = r.n
           /\ strTotal' = IF r.err = "CborNoError" THEN r.total ELSE strTotal
    /\ UNCHANGED <<pvars, evars, chunks, HAS_BUILTIN, strIn, strOut, xvars>>

CalculateStringLengthEarlier ==
    /\ strErr = "none"
    /\ LET r == ChunkedLength(chunks, 1, 0, TRUE)
       IN  /\ strErr' = r.err
           /\ strN' = r.n
           /\ strTotal' = IF r.err = "CborNoError" THEN r.total ELSE strTotal
    /\ UNCHANGED <<pvars, evars, chunks, HAS_BUILTIN, strIn, strOut, xvars>>

NextLen == CalculateStringLength \/ CalculateStringLengthEarlier

SpecLen == InitLen /\ [][NextLen]_vars

---------------------------------------------------------------------------
(* Strings: cbor_parser_init on a buffer that holds one string, chunked or *)
(* of definite length, then one cbor_value_copy_string or                  *)
(* cbor_value_calculate_string_length call on it.                          *)

StringTypes == {ByteStringType, TextStringType}
Payloads == {<<>>, <<1>>, <<255>>, <<1, 255>>}
StringCaps == {1, 16}

\* the chunk lists: every chunk a definite-length string of either type
ChunkLists == SeqsUpTo([major : StringTypes, payload : Payloads], MaxChunks)

RECURSIVE Concatenation(_)
Concatenation(chs) ==
    IF chs = <<>> THEN <<>> ELSE Head(chs).payload \o Concatenation(Tail(chs))

RECURSIVE ChunkBytes(_)
ChunkBytes(chs) ==
    IF chs = <<>> THEN <<>>
    ELSE <<32 * Head(chs).major + Len(Head(chs).payload)>> \o Head(chs).payload
             \o ChunkBytes(Tail(chs))

\* the encoded string: the chunks between an indefinite-length head and a
\* break, or their concatenation after a definite-length head
StringBytes(st) ==
    IF st.form = "chunked"
    THEN <<32 * st.type + IndefiniteLength>> \o ChunkBytes(st.chunks) \o <<BreakByte>>
    ELSE <<32 * st.type + Len(Concatenation(st.chunks))>> \o Concatenation(st.chunks)

SameType(st) == \A i \in 1..Len(st.chunks) : st.chunks[i].major = st.type

Strings ==
    {st \in [type : StringTypes, form : {"chunked", "definite"}, chunks : ChunkLists] :
        st.form = "definite" => SameType(st)}

InitStr ==
    /\ ExtraIdle
    /\ strIn \in Strings
    /\ buf = StringBytes(strIn)
    /\ NDEBUG = FALSE
    /\ HAS_BUILTIN \in BOOLEAN
    /\ stack = <<>>
    /\ err = "CborNoError"
    /\ op = NoOp
    /\ aborted = FALSE
    /\ CBOR_PARSER_NO_STRICT_CHECKS = FALSE
    /\ parserError = "CborNoError"
    /\ chunks = <<>> /\ strTotal = 0 /\ strErr = "none" /\ strN = 0
    /\ strOut = NoCall
    /\ EncoderIdle

\* The string call returned r on the root cursor.
StringCall(name, cap, r) ==
    /\ strErr' = r.err
    /\ strTotal' = r.buflen
    /\ strOut' = [name |-> name, cap |-> cap, bytes |-> r.out]
    /\ Returned(name, r, FALSE)
    /\ UNCHANGED <<buf, NDEBUG, CBOR_PARSER_NO_STRICT_CHECKS, parserError, evars,
                   chunks, strN, HAS_BUILTIN, strIn, xvars>>

CopyString ==
    /\ Running
    /\ strOut = NoCall
    /\ Top.it.type \in {CborByteStringType, CborTextStringType}
    /\ \E cap \in StringCaps, next \in BOOLEAN, ub \in UB :
          StringCall("cbor_value_copy_string", cap,
                     cbor_value_copy_string(Top.it, TRUE, cap, next, ub))

StringLength ==
    /\ Running
    /\ strOut = NoCall
    /\ Top.it.type \in {CborByteStringType, CborTextStringType}
    /\ \E ub \in UB :
          StringCall("cbor_value_calculate_string_length", 0,
                     cbor_value_calculate_string_length(Top.it, ub))

NextStr == ParserInit \/ CopyString \/ StringLength

SpecStr == InitStr /\ [][NextStr]_vars

---------------------------------------------------------------------------
(* The encoder driven by a caller: cbor_encoder_init on a buffer, then     *)
(* encode, create and close calls on the innermost encoder.                *)

MaxCap == 4
MaxOps == 4
BufferAddress == 64

UintValues == {0, 24, 256, 65536}
SimpleValues == {0, 25, 32}
StringLens == {0, 2}
ContainerLens == {0, 24, CborIndefiniteLength}

\* a null buffer of no bytes, or a buffer of up to MaxCap bytes
Buffers ==
    {[base |-> NULL, size |-> 0]} \cup {[base |-> BufferAddress, size |-> n] : n \in 0..MaxCap}

\* the bytes the head of an item with argument v takes
HeadSize(v) == IF v < 24 THEN 1 ELSE IF v < 256 THEN 2 ELSE IF v < 65536 THEN 3 ELSE 5

EncTop == enc[Len(enc)]

InitEnc ==
    /\ ExtraIdle
    /\ encBuf \in Buffers
    /\ enc = <<cbor_encoder_init(encBuf.base, encBuf.size, 0)>>
    /\ encMem = <<>>
    /\ encErr = "CborNoError"
    /\ encOp = NoEncOp
    /\ encTotal = 0
    /\ encItems = <<[length |-> -1, map |-> FALSE, n |-> 0]>>
    /\ encExpected = <<>>
    /\ encArg = 0
    /\ CBOR_ENCODER_NO_CHECK_USER = FALSE
    /\ ParserIdle
    /\ HAS_BUILTIN = FALSE
    /\ StringIdle

\* the encoding RFC 8949 gives the head of major type m with argument v
WireHead(m, v) ==
    IF v < 24 THEN <<32 * m + v>>
    ELSE IF v < 256 THEN <<32 * m + 24, v>>
    ELSE IF v < 65536 THEN <<32 * m + 25, v \div 256, v % 256>>
    ELSE <<32 * m + 26, v \div 16777216, (v \div 65536) % 256, (v \div 256) % 256, v % 256>>

\* The call returned r on the innermost encoder, to which it adds one item;
\* bytes is the item's encoding.
Encoded(name, r, bytes, arg) ==
    /\ enc' = [enc EXCEPT ![Len(enc)] = r.encoder]
    /\ encMem' = r.mem
    /\ encErr' = r.err
    /\ encOp' = [name |-> name, n |-> encOp.n + 1,
                 ok |-> encOp.ok /\ r.err = "CborNoError",
                 oom |-> encOp.oom \/ r.err = "CborErrorOutOfMemory",
                 want |-> encOp.want \o bytes]
    /\ encTotal' = encTotal + Len(bytes)
    /\ encItems' = [encItems EXCEPT ![Len(enc)].n = @ + 1]
    /\ encExpected' = IF encOp.ok /\ r.err = "CborNoError"
                      THEN encExpected \o bytes ELSE encExpected
    /\ encArg' = arg
    /\ UNCHANGED <<encBuf, CBOR_ENCODER_NO_CHECK_USER, pvars, svars, xvars>>

EncodeUint ==
    /\ encOp.n < MaxOps
    /\ \E v \in UintValues :
          Encoded("cbor_encode_uint", cbor_encode_uint(EncTop, encMem, uint64(v)),
                  WireHead(UnsignedIntegerType, v), v)

EncodeSimpleValue ==
    /\ encOp.n < MaxOps
    /\ \E v \in SimpleValues :
          LET r == cbor_encode_simple_value(EncTop, encMem, v)
          IN  Encoded("cbor_encode_simple_value", r,
                      IF r.err = "CborErrorIllegalSimpleType" THEN <<>>
                      ELSE WireHead(SimpleTypesType, v), v)

EncodeByteString ==
    /\ encOp.n < MaxOps
    /\ \E n \in StringLens :
          LET string == [i \in 1..n |-> 170]
          IN  Encoded("cbor_encode_byte_string",
                      cbor_encode_byte_string(EncTop, encMem, string),
                      WireHead(ByteStringType, n) \o string, n)

\* The create call returned r: the container is one more item of the
\* innermost encoder, and the container encoder becomes the innermost.
Created(name, r, length, m) ==
    LET bytes == IF length = CborIndefiniteLength THEN <<32 * m + IndefiniteLength>>
                 ELSE WireHead(m, length)
    IN  /\ enc' = Append([enc EXCEPT ![Len(enc)] = r.encoder], r.container)
        /\ encMem' = r.mem
        /\ encErr' = r.err
        /\ encOp' = [name |-> name, n |-> encOp.n + 1,
                     ok |-> encOp.ok /\ r.err = "CborNoError",
                     oom |-> encOp.oom \/ r.err = "CborErrorOutOfMemory",
                     want |-> encOp.want \o bytes]
        /\ encTotal' = encTotal + Len(bytes)
        /\ encItems' = Append([encItems EXCEPT ![Len(enc)].n = @ + 1],
                              [length |-> length, map |-> m = MapType, n |-> 0])
        /\ encExpected' = IF encOp.ok /\ r.err = "CborNoError"
                          THEN encExpected \o bytes ELSE encExpected
        /\ encArg' = length
        /\ UNCHANGED <<encBuf, CBOR_ENCODER_NO_CHECK_USER, pvars, svars, xvars>>

CreateArray ==
    /\ encOp.n < MaxOps /\ Len(enc) < MaxDepth
    /\ \E length \in ContainerLens :
          Created("cbor_encoder_create_array",
                  cbor_encoder_create_array(EncTop, encMem, length), length, ArrayType)

CreateMap ==
    /\ encOp.n < MaxOps /\ Len(enc) < MaxDepth
    /\ \E length \in ContainerLens :
          Created("cbor_encoder_create_map",
                  cbor_encoder_create_map(EncTop, encMem, length), length, MapType)

CloseContainer ==
    /\ encOp.n < MaxOps /\ Len(enc) >= 2
    /\ LET r == cbor_encoder_close_container(enc[Len(enc) - 1], encMem, EncTop)
           bytes == IF encItems[Len(enc)].length = CborIndefiniteLength
                    THEN <<BreakByte>> ELSE <<>>
       IN  /\ enc' = [SubSeq(enc, 1, Len(enc) - 1) EXCEPT ![Len(enc) - 1] = r.encoder]
           /\ encMem' = r.mem
           /\ encErr' = r.err
           /\ encOp' = [name |-> "cbor_encoder_close_container", n |-> encOp.n + 1,
                        ok |-> encOp.ok /\ r.err = "CborNoError",
                        oom |-> encOp.oom \/ r.err = "CborErrorOutOfMemory",
                        want |-> encOp.want \o bytes]
           /\ encTotal' = encTotal + Len(bytes)
           /\ encItems' = SubSeq(encItems, 1, Len(enc) - 1)
           /\ encExpected' = IF encOp.ok /\ r.err = "CborNoError"
                             THEN encExpected \o bytes ELSE encExpected
           /\ encArg' = 0
    /\ UNCHANGED <<encBuf, CBOR_ENCODER_NO_CHECK_USER, pvars, svars, xvars>>

NextEnc ==
    \/ EncodeUint \/ EncodeSimpleValue \/ EncodeByteString
    \/ CreateArray \/ CreateMap \/ CloseContainer

SpecEnc == InitEnc /\ [][NextEnc]_vars

\* The same caller on the earlier encoder, which has no containers.
EncodeUintB ==
    /\ encOp.n < MaxOps
    /\ \E v \in UintValues :
          Encoded("cbor_encode_uint", cborencoder_cbor_encode_uint(EncTop, encMem, uint64(v)),
                  WireHead(UnsignedIntegerType, v), v)

EncodeSimpleValueB ==
    /\ encOp.n < MaxOps
    /\ \E v \in SimpleValues :
          LET r == cborencoder_cbor_encode_simple_value(EncTop, encMem, v)
          IN  Encoded("cbor_encode_simple_value", r,
                      IF r.err = "CborErrorIllegalSimpleType" THEN <<>>
                      ELSE WireHead(SimpleTypesType, v), v)

EncodeByteStringB ==
    /\ encOp.n < MaxOps
    /\ \E n \in StringLens :
          LET string == [i \in 1..n |-> 170]
          IN  Encoded("cbor_encode_byte_string",
                      cborencoder_cbor_encode_byte_string(EncTop, encMem, string),
                      WireHead(ByteStringType, n) \o string, n)

NextEncB == EncodeUintB \/ EncodeSimpleValueB \/ EncodeByteStringB

SpecEncB == InitEnc /\ [][NextEncB]_vars

---------------------------------------------------------------------------
(* One head with follow-on bytes that spell a value: cbor_parser_init of   *)
(* either revision, then the value the extraction helper gives.            *)

\* follow-on bytes; the 8-byte values keep their upper half zero
ValueTails ==
    {<<>>, <<1>>, <<200>>, <<1, 2>>, <<255, 254>>, <<1, 2, 3>>, <<1, 2, 3, 4>>,
     <<127, 254, 253, 252>>, <<1, 2, 3, 4, 5>>, <<0, 0, 0, 0, 1, 2, 3, 4>>,
     <<0, 0, 0, 0, 127, 254, 253, 252>>, <<0, 0, 0, 0, 0, 0, 2, 1, 9>>}

InitValue ==
    /\ ExtraIdle
    /\ buf \in {<<h>> \o t : h \in HeadBytes, t \in ValueTails}
    /\ NDEBUG \in BOOLEAN
    /\ HAS_BUILTIN = FALSE
    /\ stack = <<>>
    /\ err = "CborNoError"
    /\ op = NoOp
    /\ aborted = FALSE
    /\ CBOR_PARSER_NO_STRICT_CHECKS \in BOOLEAN
    /\ parserError = "CborNoError"
    /\ Idle

SpecValue == InitValue /\ [][NextHead]_vars

---------------------------------------------------------------------------
(* The cursor of the revision in src/cborparser.c, whose functions return  *)
(* true or false and leave the error kind in the parser context. err holds *)
(* "true" or "false" after a call that returns bool.                       *)

cborparser_is_fixed_type(type) ==
    type \in {CborIntegerType, CborTagType, CborSimpleType}

\* makeError stores the kind in the parser and returns false
makeError(error, e) == e

\* 'unsigned size = 1 << (*it->ptr - Value8Bit)' shifts by the whole head byte
\* less 24: a count outside 0..30 is undefined, and the build may trap or go
\* on with any size.
cborparser_advance_internal(it, error, ub) ==
    LET shift == Read(it.ptr, ub) - Value8Bit
        defined == shift >= 0 /\ shift <= 30
        size == IF defined THEN 2 ^ shift ELSE 2 ^ ub.g
        it1 == [it EXCEPT !.ptr = @ + size]
        it2 == [it1 EXCEPT !.remaining = IF @ # UINT32_MAX THEN DecU32(@) ELSE @]
        r == cborparser_preparse_value(it2, ub)
    IN  IF ~defined /\ ub.trap
        THEN [ret |-> "Abort", it |-> it, error |-> error]
        ELSE IF it.ptr + size > End
        THEN [ret |-> "false", it |-> it, error |-> makeError(error, "CborErrorUnexpectedEOF")]
        ELSE IF it.remaining = UINT32_MAX /\ Read(it1.ptr, ub) = BreakByte
        THEN [ret |-> "true", it |-> [it1 EXCEPT !.remaining = 0], error |-> error]
        ELSE [ret |-> "true", it |-> r.it,
              error |-> IF r.err # "CborNoError" THEN makeError(error, r.err) ELSE error]

cborparser_cbor_value_advance_fixed(it, error, ub) ==
    IF ~cborparser_is_fixed_type(it.type) /\ ~NDEBUG
    THEN [ret |-> "Abort", it |-> it, error |-> error]
    ELSE IF it.remaining = 0
    THEN [ret |-> "false", it |-> it, error |-> error]
    ELSE cborparser_advance_internal(it, error, ub)

cbor_value_is_recursive(it) == it.type \in {CborArrayType, CborMapType}

cbor_value_begin_recurse(it, error, ub) ==
    LET len == _cbor_value_extract_int64_helper(it, ub)
    IN  IF ~cbor_value_is_recursive(it) /\ ~NDEBUG
        THEN [ret |-> "Abort", it |-> it, error |-> error]
        ELSE IF CborIteratorFlag_UnknownLength \in it.flags
        THEN cborparser_advance_internal([it EXCEPT !.remaining = UINT32_MAX], error, ub)
        ELSE IF len = UINT32_MAX
        THEN [ret |-> "false", it |-> [it EXCEPT !.remaining = len],
              error |-> makeError(error, "CborErrorDataTooLarge")]
        ELSE cborparser_advance_internal([it EXCEPT !.remaining = len], error, ub)

LatchBytes == {0, 24, 28, 129, 159, 255}
LatchFollowLens == {0, 1, 2, 4, 8, 16}
LatchDepth == 2

\* one head of any kind followed by zero bytes, and short runs of heads
LatchInputs ==
    {<<h>> \o [i \in 1..n |-> 0] : h \in HeadBytes, n \in LatchFollowLens}
        \cup SeqsUpTo(LatchBytes, MaxLen)

InitLatch ==
    /\ ExtraIdle
    /\ buf \in LatchInputs
    /\ NDEBUG \in BOOLEAN
    /\ HAS_BUILTIN = FALSE
    /\ stack = <<>>
    /\ err = "CborNoError"
    /\ op = NoOp
    /\ aborted = FALSE
    /\ CBOR_PARSER_NO_STRICT_CHECKS = FALSE
    /\ parserError = "CborNoError"
    /\ Idle

AdvanceFixedC ==
    /\ stack # <<>> /\ ~aborted
    /\ \E ub \in UB :
          LET r == cborparser_cbor_value_advance_fixed(Top.it, parserError, ub)
          IN  /\ stack' = [stack EXCEPT ![Len(stack)] = [@ EXCEPT !.it = r.it]]
              /\ err' = r.ret
              /\ aborted' = (r.ret = "Abort")
              /\ parserError' = r.error
              /\ op' = [name |-> "cbor_value_advance_fixed", level |-> Len(stack),
                        atEnd |-> cbor_value_at_end(Top.it), from |-> Top.it.ptr,
                        rem |-> Top.it.remaining]
    /\ UNCHANGED <<buf, NDEBUG, CBOR_PARSER_NO_STRICT_CHECKS, evars, svars, xvars>>

BeginRecurseC ==
    /\ stack # <<>> /\ ~aborted /\ Len(stack) < LatchDepth
    /\ \E ub \in UB :
          LET r == cbor_value_begin_recurse(Top.it, parserError, ub)
          IN  /\ stack' = Append(stack, Frame(r.it, 0, Top.it.ptr, Top.it.type))
              /\ err' = r.ret
              /\ aborted' = (r.ret = "Abort")
              /\ parserError' = r.error
              /\ op' = [name |-> "cbor_value_begin_recurse", level |-> Len(stack),
                        atEnd |-> cbor_value_at_end(Top.it), from |-> Top.it.ptr,
                        rem |-> Top.it.remaining]
    /\ UNCHANGED <<buf, NDEBUG, CBOR_PARSER_NO_STRICT_CHECKS, evars, svars, xvars>>

NextLatch == ParserInitC \/ AdvanceFixedC \/ BeginRecurseC

SpecLatch == InitLatch /\ [][NextLatch]_vars

---------------------------------------------------------------------------
(* One encode call of any kind on an encoder whose buffer has room for it, *)
(* with arguments at and around every width boundary.                      *)

NumBufferSize == 512

\* 64-bit magnitudes: 0, 23, 24, 255, 256, 65535, 65536, 2^31, 2^32 - 1,
\* 2^32, 2^48, 2^63 - 1, 2^63, 2^64 - 1
Magnitudes ==
    {uint64(0), uint64(23), uint64(24), uint64(255), uint64(256), uint64(65535),
     <<0, 1, 0, 0>>, <<0, 32768, 0, 0>>, <<65535, 65535, 0, 0>>, <<0, 0, 1, 0>>,
     <<0, 0, 0, 1>>, <<65535, 65535, 65535, 32767>>, <<0, 0, 0, 32768>>,
     <<65535, 65535, 65535, 65535>>}

AnyLens == {0, 23, 24, 255, 256}
AnyContainerLens == AnyLens \cup {65534, CborIndefiniteLength}

\* the big-endian bytes of a 64-bit value given by its words
WordBytes(u) ==
    [k \in 1..8 |-> LET w == u[4 - (k - 1) \div 2]
                    IN  IF k % 2 = 1 THEN w \div 256 ELSE w % 256]

\* the shortest head RFC 8949 allows for major type m and argument u
ShortestHead(m, u) ==
    CASE u[2] = 0 /\ u[3] = 0 /\ u[4] = 0 /\ u[1] < 24 -> <<32 * m + u[1]>>
      [] u[2] = 0 /\ u[3] = 0 /\ u[4] = 0 /\ u[1] \in 24..255 ->
            <<32 * m + 24>> \o SubSeq(WordBytes(u), 8, 8)
      [] u[2] = 0 /\ u[3] = 0 /\ u[4] = 0 /\ u[1] > 255 ->
            <<32 * m + 25>> \o SubSeq(WordBytes(u), 7, 8)
      [] u[2] # 0 /\ u[3] = 0 /\ u[4] = 0 ->
            <<32 * m + 26>> \o SubSeq(WordBytes(u), 5, 8)
      [] OTHER -> <<32 * m + 27>> \o WordBytes(u)

InitNum ==
    /\ ExtraIdle
    /\ encBuf = [base |-> BufferAddress, size |-> NumBufferSize]
    /\ enc = <<cbor_encoder_init(encBuf.base, encBuf.size, 0)>>
    /\ encMem = <<>>
    /\ encErr = "CborNoError"
    /\ encOp = NoEncOp
    /\ encTotal = 0
    /\ encItems = <<[length |-> -1, map |-> FALSE, n |-> 0]>>
    /\ encExpected = <<>>
    /\ encArg = 0
    /\ CBOR_ENCODER_NO_CHECK_USER \in BOOLEAN
    /\ ParserIdle
    /\ HAS_BUILTIN = FALSE
    /\ StringIdle

\* the argument of the call: the major type of the item and its 64-bit
\* argument (value, magnitude, tag or length)
Arg(m, u) == [m |-> m, u |-> u]

EncodeAnyUint ==
    /\ encOp.n = 0
    /\ \E u \in Magnitudes :
          Encoded("cbor_encode_uint", cbor_encode_uint(EncTop, encMem, u),
                  ShortestHead(UnsignedIntegerType, u), Arg(UnsignedIntegerType, u))

\* the int64_t values n and -1 - n for the magnitudes n below 2^63
EncodeAnyInt ==
    /\ encOp.n = 0
    /\ \E u \in {n \in Magnitudes : n[4] < 32768}, negative \in BOOLEAN :
          LET value == IF negative THEN [i \in 1..4 |-> 65535 - u[i]] ELSE u
              m == IF negative THEN NegativeIntegerType ELSE UnsignedIntegerType
          IN  Encoded("cbor_encode_int", cbor_encode_int(EncTop, encMem, value),
                      ShortestHead(m, u), Arg(m, u))

EncodeAnyTag ==
    /\ encOp.n = 0
    /\ \E u \in Magnitudes :
          Encoded("cbor_encode_tag", cbor_encode_tag(EncTop, encMem, u),
                  ShortestHead(TagType, u), Arg(TagType, u))

EncodeAnySimpleValue ==
    /\ encOp.n = 0
    /\ \E v \in 0..255 :
          LET r == cbor_encode_simple_value(EncTop, encMem, v)
          IN  Encoded("cbor_encode_simple_value", r,
                      IF r.err = "CborErrorIllegalSimpleType" THEN <<>>
                      ELSE ShortestHead(SimpleTypesType, uint64(v)),
                      Arg(SimpleTypesType, uint64(v)))

EncodeAnyByteString ==
    /\ encOp.n = 0
    /\ \E n \in AnyLens :
          LET string == [i \in 1..n |-> 170]
          IN  Encoded("cbor_encode_byte_string",
                      cbor_encode_byte_string(EncTop, encMem, string),
                      ShortestHead(ByteStringType, uint64(n)) \o string,
                      Arg(ByteStringType, uint64(n)))

EncodeAnyTextString ==
    /\ encOp.n = 0
    /\ \E n \in AnyLens :
          LET string == [i \in 1..n |-> 97]
          IN  Encoded("cbor_encode_text_string",
                      cbor_encode_text_string(EncTop, encMem, string),
                      ShortestHead(TextStringType, uint64(n)) \o string,
                      Arg(TextStringType, uint64(n)))

CreateAnyArray ==
    /\ encOp.n = 0
    /\ \E length \in AnyContainerLens :
          /\ Created("cbor_encoder_create_array",
                     cbor_encoder_create_array(EncTop, encMem, length), length, ArrayType)

CreateAnyMap ==
    /\ encOp.n = 0
    /\ \E length \in AnyContainerLens :
          /\ Created("cbor_encoder_create_map",
                     cbor_encoder_create_map(EncTop, encMem, length), length, MapType)

NextNum ==
    \/ EncodeAnyUint \/ EncodeAnyInt \/ EncodeAnyTag \/ EncodeAnySimpleValue
    \/ EncodeAnyByteString \/ EncodeAnyTextString
    \/ CreateAnyArray \/ CreateAnyMap

SpecNum == InitNum /\ [][NextNum]_vars

---------------------------------------------------------------------------
(* The buffered file reader of examples/bufferedreader.c: a window of      *)
(* buffer_sz bytes over a file, moved by filereader_load_buffer. fr holds  *)
(* the context (with the file's bytes in place of the descriptor), the     *)
(* cursor's token and the last request. A pointer into the buffer is the   *)
(* index of its first byte.                                                *)

U16(x) == x % 65536
NullPtr == -1
\* the content of a buffer byte nothing has been read into
Indeterminate == 256

\* outcomes of what the C standard leaves open: a write outside the buffer or
\* a memmove of negative size traps or goes on; errno after a short read
FileEnv == [trap : BOOLEAN, errno : {0, 5}]

filereader_get_block_pos(context, pos) ==
    context.block_sz * (pos \div context.block_sz)

filereader_get_ptr(context, pos, sz) ==
    IF sz > context.used_sz THEN NullPtr
    ELSE IF pos < context.pos THEN NullPtr
    ELSE IF pos + sz > context.pos + context.used_sz THEN NullPtr
    ELSE pos - context.pos

\* memmove(&buffer[dst], &buffer[src], n) inside the buffer
memmove(buffer, dst, src, n) ==
    [i \in 1..Len(buffer) |->
        IF i > dst /\ i <= dst + n THEN buffer[i - dst + src] ELSE buffer[i]]

\* lseek and read: the bytes read land at wptr; res is sz, or -errno after a
\* read that came back short; ub: some of the bytes went outside the buffer
filereader_read(context, pos, sz, wptr, env) ==
    LET got == IF pos >= context.file_sz THEN 0
               ELSE IF pos + sz > context.file_sz THEN context.file_sz - pos ELSE sz
        inside == wptr >= 0 /\ wptr + got <= context.buffer_sz
        buffer == [i \in 1..context.buffer_sz |->
                      IF i > wptr /\ i <= wptr + got
                      THEN context.file[pos + i - wptr] ELSE context.buffer[i]]
    IN  [res |-> IF got = sz THEN sz ELSE -env.errno,
         ub |-> ~inside,
         context |-> [context EXCEPT !.buffer = buffer]]

filereader_prepend_buffer(context, sz, env) ==
    LET pos == U16(context.pos - sz)
        fits == context.buffer_sz - sz >= 0
        moved == IF fits
                 THEN [context EXCEPT !.buffer = memmove(@, sz, 0, context.buffer_sz - sz)]
                 ELSE context
        r == filereader_read(moved, pos, sz, 0, env)
    IN  [res |-> r.res, ub |-> r.ub \/ ~fits,
         context |-> IF r.res >= 0
                     THEN [r.context EXCEPT
                              !.pos = pos,
                              !.used_sz = IF context.used_sz + sz < context.buffer_sz
                                          THEN U16(@ + sz) ELSE @]
                     ELSE r.context]

filereader_append_buffer(context, sz, env) ==
    LET pos == U16(context.pos + context.used_sz)
        shift == context.buffer_sz - context.used_sz < sz
        fits == context.buffer_sz - sz >= 0
        moved == IF ~shift THEN context
                 ELSE [context EXCEPT
                          !.buffer = IF fits THEN memmove(@, 0, sz, context.buffer_sz - sz)
                                     ELSE @,
                          !.pos = U16(@ + sz),
                          !.used_sz = U16(@ - sz)]
        r == filereader_read(moved, pos, sz, moved.used_sz, env)
    IN  [res |-> r.res, ub |-> r.ub \/ (shift /\ ~fits),
         context |-> IF r.res >= 0
                     THEN [r.context EXCEPT !.used_sz = U16(@ + sz)]
                     ELSE r.context]

filereader_load_buffer(context, pos0, sz0, env) ==
    LET end0 == U16(pos0 + sz0)
        buffer_end == U16(context.pos + context.used_sz)
        pos == filereader_get_block_pos(context, pos0)
        end1 == filereader_get_block_pos(context, U16(end0 + (context.block_sz - 1)))
        end == IF end1 > context.file_sz THEN context.file_sz ELSE end1
        file_rem == U16(context.file_sz - pos)
        sz == IF file_rem < context.buffer_sz THEN file_rem ELSE context.buffer_sz
        r == filereader_read(context, pos, sz, 0, env)
    IN  IF pos0 < context.pos \/ end0 > context.pos + context.used_sz
        THEN IF pos >= context.pos /\ pos < buffer_end /\ end > buffer_end
             THEN filereader_append_buffer(context, U16(end - buffer_end), env)
             ELSE IF pos < context.pos /\ end >= context.pos /\ end <= buffer_end
             THEN filereader_prepend_buffer(context, U16(context.pos - pos), env)
             ELSE [res |-> r.res, ub |-> r.ub,
                   context |-> IF r.res >= 0
                               THEN [r.context EXCEPT !.pos = pos, !.used_sz = sz]
                               ELSE r.context]
        ELSE [res |-> 0, ub |-> FALSE, context |-> context]

filereader_fetch_ptr(context, pos, sz, env) ==
    LET r == filereader_load_buffer(context, pos, sz, env)
    IN  [ptr |-> IF r.res < 0 THEN NullPtr ELSE filereader_get_ptr(r.context, pos, sz),
         ub |-> r.ub, context |-> r.context]

filereader_impl_can_read_bytes(context, token, len) ==
    token + len <= context.file_sz

\* the bytes memcpy copies to dst, or no copy
filereader_impl_read_bytes(context, token, offset, len, env) ==
    LET pos == U16(token + offset)
        r == filereader_fetch_ptr(context, pos, U16(len), env)
    IN  [ret |-> IF r.ptr # NullPtr THEN "dst" ELSE "NULL",
         ptr |-> r.ptr, ub |-> r.ub, context |-> r.context, token |-> token]

filereader_impl_transfer_string(context, token, offset, len, env) ==
    LET pos == U16(token + offset)
        r == filereader_fetch_ptr(context, pos, U16(len), env)
    IN  [ret |-> IF r.ptr # NullPtr THEN "CborNoError" ELSE "CborErrorIO",
         ptr |-> r.ptr, ub |-> r.ub, context |-> r.context,
         token |-> IF r.ptr # NullPtr THEN U16(pos + len) ELSE token]

FileSizes == {3, 10}
BufferSizes == {4}
BlockSizes == {0, 1, 3, 4}
RequestOffsets == {0, 1, 4, 5, 8}
RequestLens == {0, 1, 4}

\* the file's byte at offset i - 1 is i
FileOf(n) == [i \in 1..n |-> i]

NoRequest == [name |-> "none", pos |-> 0, len |-> 0, ret |-> "none", ptr |-> NullPtr,
              from |-> 0]

\* filereader_open: the context, then the first fill of the buffer
filereader_open(file_sz, buffer_sz, block_sz0, env) ==
    LET block_sz == IF block_sz0 = 0 THEN buffer_sz \div 2 ELSE block_sz0
        context == [file |-> FileOf(file_sz), file_sz |-> file_sz,
                    buffer |-> [i \in 1..buffer_sz |-> Indeterminate],
                    buffer_sz |-> buffer_sz, block_sz |-> block_sz,
                    pos |-> 0, used_sz |-> 0]
    IN  filereader_load_buffer(context, 0, buffer_sz, env)

InitFile ==
    /\ \E file_sz \in FileSizes, buffer_sz \in BufferSizes, block_sz \in BlockSizes,
          env \in FileEnv :
          fr = [context |-> filereader_open(file_sz, buffer_sz, block_sz, env).context,
                token |-> 0, op |-> NoRequest, aborted |-> FALSE]
    /\ fw = <<>> /\ tenc = <<>> /\ tpar = <<>>
    /\ ParserIdle
    /\ HAS_BUILTIN = FALSE
    /\ Idle

\* The request returned r; where the program did something undefined it
\* either ended there or went on.
Requested(name, offset, len, r, env) ==
    fr' = IF r.ub /\ env.trap
          THEN [fr EXCEPT !.aborted = TRUE,
                          !.op = [name |-> name, pos |-> U16(fr.token + offset), len |-> len,
                                  ret |-> "Abort", ptr |-> NullPtr, from |-> fr.token]]
          ELSE [fr EXCEPT !.context = r.context,
                          !.token = r.token,
                          !.op = [name |-> name, pos |-> U16(fr.token + offset), len |-> len,
                                  ret |-> r.ret, ptr |-> r.ptr, from |-> fr.token]]

\* requests the parser makes after filereader_impl_can_read_bytes said yes
ReadBytes ==
    /\ ~fr.aborted
    /\ \E offset \in RequestOffsets, len \in RequestLens, env \in FileEnv :
          /\ filereader_impl_can_read_bytes(fr.context, fr.token, offset + len)
          /\ Requested("read_bytes", offset, len,
                       filereader_impl_read_bytes(fr.context, fr.token, offset, len, env), env)
    /\ UNCHANGED <<pvars, evars, svars, fw, tenc, tpar>>

TransferString ==
    /\ ~fr.aborted
    /\ \E offset \in RequestOffsets, len \in RequestLens, env \in FileEnv :
          /\ filereader_impl_can_read_bytes(fr.context, fr.token, offset + len)
          /\ Requested("transfer_string", offset, len,
                       filereader_impl_transfer_string(fr.context, fr.token, offset, len, env),
                       env)
    /\ UNCHANGED <<pvars, evars, svars, fw, tenc, tpar>>

NextFile == ReadBytes \/ TransferString

SpecFile == InitFile /\ [][NextFile]_vars

---------------------------------------------------------------------------
(* The buffered file writer (filewriter_open, filewriter_flush,            *)
(* filewriter_close, filewriter_writer_impl). fw holds the context, the    *)
(* bytes the file has received, the number of bytes handed to the writer   *)
(* so far and the last call. The i-th byte handed to the writer is         *)
(* DataByte(i), so the file's expected content is a function of the count. *)

FILEWRITER_BUFFER_SZ == 64
U8(x) == x % 256

DataByte(i) == i % 251
DataFrom(passed, len) == [i \in 1..len |-> DataByte(passed + i)]

\* what the system calls of one operation do: the failAt-th write() of the
\* operation (0: none) accepts only 'short' bytes of those offered, or fails
\* (-1); close() fails or not
WriteEnv == [failAt : 0..2, short : {-1, 0, 1}, closeFails : BOOLEAN]

\* write(fd, buffer, n): the bytes the file receives and the result
write(file, buffer, n, nth, env) ==
    IF nth = env.failAt /\ env.short < n
    THEN [res |-> env.short,
          file |-> file \o [i \in 1..(IF env.short > 0 THEN env.short ELSE 0) |-> buffer[i]]]
    ELSE [res |-> n, file |-> file \o [i \in 1..n |-> buffer[i]]]

\* w is [context, file, writes]: writes counts the write() calls so far
filewriter_flush(w, env) ==
    IF w.context.pos > 0
    THEN LET r == write(w.file, w.context.buffer, w.context.pos, w.writes + 1, env)
         IN  IF r.res < w.context.pos
             THEN [error |-> "CborErrorIO", context |-> w.context, file |-> r.file,
                   writes |-> w.writes + 1]
             ELSE [error |-> "CborNoError", context |-> [w.context EXCEPT !.pos = 0],
                   file |-> r.file, writes |-> w.writes + 1]
    ELSE [error |-> "CborNoError", context |-> w.context, file |-> w.file,
          writes |-> w.writes]

filewriter_close(w, env) ==
    LET f == filewriter_flush(w, env)
    IN  IF f.error = "CborNoError"
        THEN IF env.closeFails
             THEN [f EXCEPT !.error = "CborErrorIO"]
             ELSE [f EXCEPT !.context.fd = -1]
        ELSE f

\* the loop of filewriter_writer_impl: data is what is left to write
RECURSIVE filewriter_writer_impl(_, _, _)
filewriter_writer_impl(w, data, env) ==
    IF Len(data) = 0
    THEN [error |-> "CborNoError", context |-> w.context, file |-> w.file,
          writes |-> w.writes]
    ELSE LET rem == U8(FILEWRITER_BUFFER_SZ - w.context.pos)
             sz == IF rem > Len(data) THEN U8(Len(data)) ELSE rem
             copied == IF rem > 0
                       THEN [w.context EXCEPT
                                !.buffer = [i \in 1..FILEWRITER_BUFFER_SZ |->
                                               IF i > w.context.pos /\ i <= w.context.pos + sz
                                               THEN data[i - w.context.pos]
                                               ELSE w.context.buffer[i]],
                                !.pos = U8(w.context.pos + sz)]
                       ELSE w.context
             rest == IF rem > 0 THEN SubSeq(data, sz + 1, Len(data)) ELSE data
             rem2 == IF rem > 0 THEN U8(rem - sz) ELSE rem
             w2 == [w EXCEPT !.context = copied]
         IN  IF rem2 = 0
             THEN LET f == filewriter_flush(w2, env)
                  IN  IF f.error = "CborNoError"
                      THEN filewriter_writer_impl(
                               [context |-> f.context, file |-> f.file, writes |-> f.writes],
                               rest, env)
                      ELSE f
             ELSE filewriter_writer_impl(w2, rest, env)

WriterCalls == 3
WriteLens == {0, 1, 63, 64, 65, 130}

\* filewriter_open succeeded on an empty file
InitWriter ==
    /\ fw = [context |-> [buffer |-> [i \in 1..FILEWRITER_BUFFER_SZ |-> Indeterminate],
                          fd |-> 3, pos |-> 0],
             file |-> <<>>, passed |-> 0, calls |-> 0,
             op |-> [name |-> "open", ret |-> "CborNoError"], failed |-> FALSE]
    /\ fr = <<>> /\ tenc = <<>> /\ tpar = <<>>
    /\ ParserIdle
    /\ HAS_BUILTIN = FALSE
    /\ Idle

Written(name, r, len) ==
    fw' = [fw EXCEPT !.context = r.context, !.file = r.file,
                     !.passed = fw.passed + len, !.calls = fw.calls + 1,
                     !.op = [name |-> name, ret |-> r.error],
                     !.failed = fw.failed \/ r.error # "CborNoError"]

\* the encoder hands len bytes to the writer
WriterImpl ==
    /\ fw.context.fd >= 0 /\ fw.calls < WriterCalls
    /\ \E len \in WriteLens, env \in WriteEnv :
          Written("write",
                  filewriter_writer_impl([context |-> fw.context, file |-> fw.file,
                                          writes |-> 0],
                                         DataFrom(fw.passed, len), env), len)
    /\ UNCHANGED <<pvars, evars, svars, fr, tenc, tpar>>

Flush ==
    /\ fw.context.fd >= 0 /\ fw.calls < WriterCalls
    /\ \E env \in WriteEnv :
          Written("flush",
                  filewriter_flush([context |-> fw.context, file |-> fw.file, writes |-> 0],
                                   env), 0)
    /\ UNCHANGED <<pvars, evars, svars, fr, tenc, tpar>>

Close ==
    /\ fw.context.fd >= 0 /\ fw.calls <= WriterCalls
    /\ \E env \in WriteEnv :
          Written("close",
                  filewriter_close([context |-> fw.context, file |-> fw.file, writes |-> 0],
                                   env), 0)
    /\ UNCHANGED <<pvars, evars, svars, fr, tenc, tpar>>

NextWriter == WriterImpl \/ Flush \/ Close

SpecWriter == InitWriter /\ [][NextWriter]_vars

---------------------------------------------------------------------------
(* TinyCBOREncoder (tinycbor.h and the Arduino wrapper's source): an array *)
(* of mDepth encoders and the nesting level that selects the one in use.   *)
(* tenc holds the object, the number of containers open and the last call; *)
(* the buffer is encBuf with its bytes in encMem. mEncoders[i] of the      *)
(* source is mEncoders[i + 1] here.                                        *)

TINYCBOR_MAXDEPTH == 4
Depths == {1, 2, TINYCBOR_MAXDEPTH}

\* an encoder of the zero-initialised array
ZeroEncoder == [ptr |-> NULL, end |-> NULL, flags |-> 0]

\* a create_array that does not test the depth
TinyCBOREncoder_create_array_unchecked(t, mem, length) ==
    LET r == cbor_encoder_create_array(t.mEncoders[t.mNestLevel + 1], mem, length)
    IN  [ret |-> r.err, mem |-> r.mem,
         t |-> [t EXCEPT !.mEncoders =
                             [i \in 1..t.mDepth |->
                                 IF i = t.mNestLevel + 1 THEN r.encoder
                                 ELSE IF i = t.mNestLevel + 2 THEN r.container
                                 ELSE @[i]],
                         !.mNestLevel = @ + 1]]

TinyCBOREncoder_create_array(t, mem, length) ==
    IF t.mNestLevel + 1 >= t.mDepth
    THEN [ret |-> "CborErrorInternalError", mem |-> mem, t |-> t]
    ELSE LET r == cbor_encoder_create_array(t.mEncoders[t.mNestLevel + 1], mem, length)
         IN  [ret |-> r.err, mem |-> r.mem,
              t |-> [t EXCEPT !.mEncoders[t.mNestLevel + 1] = r.encoder,
                              !.mEncoders[t.mNestLevel + 2] = r.container,
                              !.mNestLevel = @ + 1]]

TinyCBOREncoder_create_map(t, mem, length) ==
    IF t.mNestLevel + 1 >= t.mDepth
    THEN [ret |-> "CborErrorInternalError", mem |-> mem, t |-> t]
    ELSE LET r == cbor_encoder_create_map(t.mEncoders[t.mNestLevel + 1], mem, length)
         IN  [ret |-> r.err, mem |-> r.mem,
              t |-> [t EXCEPT !.mEncoders[t.mNestLevel + 1] = r.encoder,
                              !.mEncoders[t.mNestLevel + 2] = r.container,
                              !.mNestLevel = @ + 1]]

TinyCBOREncoder_close_container(t, mem) ==
    IF t.mNestLevel = 0
    THEN [ret |-> "CborErrorInternalError", mem |-> mem, t |-> t]
    ELSE LET r == cbor_encoder_close_container(t.mEncoders[t.mNestLevel], mem,
                                               t.mEncoders[t.mNestLevel + 1])
         IN  [ret |-> r.err, mem |-> r.mem,
              t |-> [t EXCEPT !.mEncoders[t.mNestLevel] = r.encoder,
                              !.mNestLevel = @ - 1]]

TinyCBOREncoder_encode_uint(t, mem, value) ==
    LET r == cbor_encode_uint(t.mEncoders[t.mNestLevel + 1], mem, value)
    IN  [ret |-> r.err, mem |-> r.mem,
         t |-> [t EXCEPT !.mEncoders[t.mNestLevel + 1] = r.encoder]]

\* TinyCBOR.init() with an array of mDepth encoders, then Encoder.init on a
\* buffer; the object has static storage, so mNestLevel starts at 0
InitTinyEncoder ==
    /\ encBuf \in Buffers
    /\ \E mDepth \in Depths :
          tenc = [mEncoders |-> [i \in 1..mDepth |->
                                    IF i = 1
                                    THEN cbor_encoder_init(encBuf.base, encBuf.size, 0)
                                    ELSE ZeroEncoder],
                  mNestLevel |-> 0, mDepth |-> mDepth, open |-> 0, n |-> 0,
                  op |-> [name |-> "init", ret |-> "CborNoError"]]
    /\ enc = <<>> /\ encMem = <<>> /\ encErr = "CborNoError" /\ encOp = NoEncOp
    /\ encTotal = 0 /\ encItems = <<>> /\ encExpected = <<>> /\ encArg = 0
    /\ CBOR_ENCODER_NO_CHECK_USER = FALSE
    /\ fr = <<>> /\ fw = <<>> /\ tpar = <<>>
    /\ ParserIdle
    /\ HAS_BUILTIN = FALSE
    /\ StringIdle

\* The call returned r; opened is the number of containers it opened (1),
\* closed (-1) or neither, when it got as far as the encoder underneath.
TinyEncoded(name, r, opened) ==
    /\ tenc' = [r.t EXCEPT !.n = @ + 1,
                           !.op = [name |-> name, ret |-> r.ret],
                           !.open = IF r.ret = "CborErrorInternalError" THEN @
                                    ELSE @ + opened]
    /\ encMem' = r.mem
    /\ UNCHANGED <<enc, encBuf, encErr, encOp, encTotal, encItems, encExpected, encArg,
                   CBOR_ENCODER_NO_CHECK_USER, pvars, svars, fr, fw, tpar>>

EncoderCreateArray ==
    /\ tenc.n < MaxOps
    /\ \E length \in ContainerLens :
          TinyEncoded("create_array", TinyCBOREncoder_create_array(tenc, encMem, length), 1)

EncoderCreateMap ==
    /\ tenc.n < MaxOps
    /\ \E length \in ContainerLens :
          TinyEncoded("create_map", TinyCBOREncoder_create_map(tenc, encMem, length), 1)

EncoderCloseContainer ==
    /\ tenc.n < MaxOps
    /\ TinyEncoded("close_container", TinyCBOREncoder_close_container(tenc, encMem), -1)

EncoderEncodeUint ==
    /\ tenc.n < MaxOps
    /\ \E v \in UintValues :
          TinyEncoded("encode_uint", TinyCBOREncoder_encode_uint(tenc, encMem, uint64(v)), 0)

NextTinyEncoder ==
    \/ EncoderCreateArray \/ EncoderCreateMap \/ EncoderCloseContainer
    \/ EncoderEncodeUint

SpecTinyEncoder == InitTinyEncoder /\ [][NextTinyEncoder]_vars

---------------------------------------------------------------------------
(* TinyCBORParser (tinycbor.h and the Arduino wrapper's source) over the   *)
(* parser of cborparser.c: an array of mDepth cursors, the nesting level   *)
(* that selects the one in use, the last error and the map-key flag. tpar  *)
(* holds the object, the number of containers entered and not left, and    *)
(* the last call; the input is buf. mValues[i] of the source is            *)
(* mValues[i + 1] here.                                                    *)

cbor_value_is_map(it) == it.type = CborMapType
cbor_value_is_text_string(it) == it.type = CborTextStringType

\* a cursor of the zero-initialised array
ZeroValue == [ptr |-> NULL, remaining |-> 0, extra |-> 0, type |-> 0, flags |-> {}]

set_ismapkey(t) ==
    [t EXCEPT !.mIsMapKey =
        /\ t.mNestLevel # 0 /\ ~t.mIsMapKey
        /\ cbor_value_is_map(t.mValues[t.mNestLevel])
        /\ cbor_value_is_text_string(t.mValues[t.mNestLevel + 1])]

\* _set_err on the result a of a call on the cursor in use
_set_err(t, a) ==
    [ret |-> a.err, t |-> [t EXCEPT !.mError = a.err, !.mValues[t.mNestLevel + 1] = a.it]]

\* the second half of _set_err_adv: a is the result of cbor_value_advance
Advanced(t, a) ==
    [ret |-> a.err,
     t |-> set_ismapkey([t EXCEPT !.mError = a.err, !.mValues[t.mNestLevel + 1] = a.it])]

\* _set_err_adv: after a getter that returned e, advance and set the flag
_set_err_adv(t, e, ub) ==
    IF e # "CborNoError" THEN [ret |-> e, t |-> [t EXCEPT !.mError = e]]
    ELSE Advanced(t, cbor_value_advance(t.mValues[t.mNestLevel + 1], ub))

TinyCBORParser_advance_fixed(t, ub) ==
    _set_err(t, cbor_value_advance_fixed(t.mValues[t.mNestLevel + 1], ub))

\* len is the size of the caller's buffer
TinyCBORParser_copy_text_string(t, len, ub) ==
    _set_err_adv(t, cbor_value_copy_string(t.mValues[t.mNestLevel + 1], TRUE, len, FALSE,
                                           ub).err, ub)

\* the level is raised before the call; r is what the call returned and left
\* in the new cursor
EnteredLevel(t, r) ==
    [ret |-> r.err,
     t |-> set_ismapkey([t EXCEPT !.mNestLevel = @ + 1,
                                  !.mValues[t.mNestLevel + 2] = r.it,
                                  !.mError = r.err])]

TinyCBORParser_enter_container(t, ub) ==
    IF t.mNestLevel + 1 >= t.mDepth
    THEN [ret |-> "CborErrorInternalError", t |-> [t EXCEPT !.mError = "CborErrorInternalError"]]
    ELSE EnteredLevel(t, cbor_value_enter_container(t.mValues[t.mNestLevel + 1], ub))

\* the level is lowered and the flag set before the call; r is what the call
\* returned and left in the outer cursor
LeftLevel(t, r) ==
    [ret |-> r.err,
     t |-> [set_ismapkey([t EXCEPT !.mNestLevel = @ - 1])
               EXCEPT !.mValues[t.mNestLevel] = r.it, !.mError = r.err]]

TinyCBORParser_leave_container(t, ub) ==
    IF t.mNestLevel = 0
    THEN [ret |-> "CborErrorInternalError", t |-> [t EXCEPT !.mError = "CborErrorInternalError"]]
    ELSE LeftLevel(t, cbor_value_leave_container(t.mValues[t.mNestLevel],
                                            t.mValues[t.mNestLevel + 1], ub))

\* [] [0] {"a": 0}, an array in an array, and maps of three and four pairs
\* with keys and values that are integers and text strings
TinyInputs ==
    {<<0>>, <<128>>, <<129, 0>>, <<129, 128>>, <<130, 129, 0, 0>>, <<161, 97, 97, 0>>,
     <<162, 0, 0, 97, 97, 0>>,
     <<163, 0, 24, 24, 0, 97, 97, 0, 0>>,
     <<163, 0, 0, 0, 97, 97, 0, 0>>,
     <<164, 0, 0, 0, 0, 0, 0, 97, 97, 0>>}

\* TinyCBOR.init() with an array of mDepth cursors, then Parser.init on the
\* input; the object has static storage
InitTinyParser ==
    /\ buf \in TinyInputs
    /\ NDEBUG \in BOOLEAN
    /\ \E mDepth \in Depths, t0 \in UninitTypes, ub \in UB :
          LET r == cbor_parser_init(t0, ub)
          IN  tpar = [mValues |-> [i \in 1..mDepth |-> IF i = 1 THEN r.it ELSE ZeroValue],
                      mNestLevel |-> 0, mDepth |-> mDepth, mError |-> "CborNoError",
                      mIsMapKey |-> FALSE, entered |-> 0, n |-> 0, aborted |-> FALSE,
                      op |-> [name |-> "init", ret |-> r.err]]
    /\ stack = <<>> /\ err = "CborNoError" /\ op = NoOp /\ aborted = FALSE
    /\ CBOR_PARSER_NO_STRICT_CHECKS = FALSE /\ parserError = "CborNoError"
    /\ fr = <<>> /\ fw = <<>> /\ tenc = <<>>
    /\ HAS_BUILTIN = FALSE
    /\ Idle

TinyCursor == tpar.mValues[tpar.mNestLevel + 1]

\* The call returned r; entered is the number of containers it entered (1)
\* or left (-1) when it returned no error.
TinyParsed(name, r, entered) ==
    /\ tpar' = IF r.ret = "Abort"
               THEN [tpar EXCEPT !.aborted = TRUE, !.n = @ + 1,
                                 !.op = [name |-> name, ret |-> r.ret]]
               ELSE [r.t EXCEPT !.n = @ + 1,
                                !.op = [name |-> name, ret |-> r.ret],
                                !.entered = IF r.ret = "CborNoError" THEN @ + entered ELSE @]
    /\ UNCHANGED <<pvars, evars, svars, fr, fw, tenc>>

TinyCalls == ~tpar.aborted /\ tpar.op.ret # "Abort" /\ tpar.n < MaxOps

ParserAdvanceFixed ==
    /\ TinyCalls
    /\ TinyCursor.type # CborInvalidType /\ is_fixed_type(TinyCursor.type)
    /\ \E ub \in UB :
          TinyParsed("advance_fixed", TinyCBORParser_advance_fixed(tpar, ub), 0)

ParserCopyTextString ==
    /\ TinyCalls
    /\ cbor_value_is_text_string(TinyCursor)
    /\ \E len \in StringCaps, ub \in UB :
          TinyParsed("copy_text_string", TinyCBORParser_copy_text_string(tpar, len, ub), 0)

ParserEnterContainer ==
    /\ TinyCalls
    /\ cbor_value_is_container(TinyCursor)
    /\ \E ub \in UB :
          TinyParsed("enter_container", TinyCBORParser_enter_container(tpar, ub), 1)

ParserLeaveContainer ==
    /\ TinyCalls
    /\ tpar.mNestLevel # 0 =>
          /\ cbor_value_is_container(tpar.mValues[tpar.mNestLevel])
          /\ cbor_value_at_end(TinyCursor)
    /\ \E ub \in UB :
          TinyParsed("leave_container", TinyCBORParser_leave_container(tpar, ub), -1)

NextTinyParser ==
    \/ ParserAdvanceFixed \/ ParserCopyTextString
    \/ ParserEnterContainer \/ ParserLeaveContainer

SpecTinyParser == InitTinyParser /\ [][NextTinyParser]_vars

---------------------------------------------------------------------------
(* RFC 8949 well-formedness of the input, used to state the claims: the    *)
(* offset just after the well-formed item that starts at p, or -1.         *)

HeadLen(ai) ==
    CASE ai < Value8Bit -> 1
      [] ai = Value8Bit -> 2
      [] ai = Value16Bit -> 3
      [] ai = Value32Bit -> 5
      [] ai = Value64Bit -> 9
      [] OTHER -> 1

HeadValue(p) ==
    LET ai == SmallValueOf(buf[p + 1])
    IN  IF ai < Value8Bit THEN ai
        ELSE BigEndian(p + 1, HeadLen(ai) - 1, [oob |-> 0])

RECURSIVE ItemEnd(_)
RECURSIVE ItemsEnd(_, _)
RECURSIVE ItemsUntilBreak(_, _, _)
RECURSIVE ChunksEnd(_, _)

ItemEnd(p) ==
    IF p < 0 \/ p >= Len(buf) THEN -1
    ELSE
    LET major == MajorOf(buf[p + 1])
        ai == SmallValueOf(buf[p + 1])
        body == p + HeadLen(ai)
    IN  IF ai \in {28, 29, 30} \/ body > Len(buf) THEN -1
        ELSE IF ai = IndefiniteLength
        THEN CASE major \in {ByteStringType, TextStringType} -> ChunksEnd(p + 1, major)
               [] major = ArrayType -> ItemsUntilBreak(p + 1, 1, 0)
               [] major = MapType -> ItemsUntilBreak(p + 1, 2, 0)
               [] OTHER -> -1
        ELSE CASE major \in {UnsignedIntegerType, NegativeIntegerType} -> body
               [] major \in {ByteStringType, TextStringType} ->
                    IF body + HeadValue(p) <= Len(buf) THEN body + HeadValue(p) ELSE -1
               [] major = ArrayType -> ItemsEnd(body, HeadValue(p))
               [] major = MapType -> ItemsEnd(body, 2 * HeadValue(p))
               [] major = TagType -> ItemEnd(body)
               [] OTHER -> IF ai = SimpleTypeInNextByte /\ HeadValue(p) < 32 THEN -1 ELSE body

ItemsEnd(p, n) ==
    IF p < 0 THEN -1
    ELSE IF n = 0 THEN p
    ELSE IF n > Len(buf) THEN -1
    ELSE ItemsEnd(ItemEnd(p), n - 1)

\* items up to the break; a map (step 2) holds an even number of them
ItemsUntilBreak(p, step, count) ==
    IF p < 0 \/ p >= Len(buf) THEN -1
    ELSE IF buf[p + 1] = BreakByte
    THEN IF count % step = 0 THEN p + 1 ELSE -1
    ELSE ItemsUntilBreak(ItemEnd(p), step, count + 1)

\* definite-length chunks of the string's own major type up to the break
ChunksEnd(p, major) ==
    IF p < 0 \/ p >= Len(buf) THEN -1
    ELSE IF buf[p + 1] = BreakByte THEN p + 1
    ELSE IF MajorOf(buf[p + 1]) # major \/ SmallValueOf(buf[p + 1]) > Value64Bit THEN -1
    ELSE ChunksEnd(ItemEnd(p), major)

\* the input is exactly one well-formed item
WellFormed == ItemEnd(0) = Len(buf)

---------------------------------------------------------------------------
(* Parse, then encode: a caller walks one well-formed item made of         *)
(* integers, arrays and maps with the parser and hands each item it        *)
(* extracts to the encoder, in order: an integer by its value and sign, a  *)
(* container by its length (indefinite when the cursor says so) on entry   *)
(* and a close on leaving.                                                 *)

\* 0, a one-byte head 24, -1, [] [_] [_, _] and [_ heads, a one-pair map, break
TripBytes == {0, 24, 32, 128, 129, 130, 159, 161, 255}

InitTrip ==
    /\ ExtraIdle
    /\ buf \in SeqsUpTo(TripBytes, MaxLen)
    /\ WellFormed
    /\ NDEBUG \in BOOLEAN
    /\ HAS_BUILTIN = FALSE
    /\ stack = <<>>
    /\ err = "CborNoError"
    /\ op = NoOp
    /\ aborted = FALSE
    /\ CBOR_PARSER_NO_STRICT_CHECKS = FALSE
    /\ parserError = "CborNoError"
    /\ encBuf = [base |-> BufferAddress, size |-> NumBufferSize]
    /\ enc = <<cbor_encoder_init(encBuf.base, encBuf.size, 0)>>
    /\ encMem = <<>>
    /\ encErr = "CborNoError"
    /\ encOp = NoEncOp
    /\ encTotal = 0
    /\ encItems = <<>>
    /\ encExpected = <<>>
    /\ encArg = 0
    /\ CBOR_ENCODER_NO_CHECK_USER = FALSE
    /\ StringIdle

\* the encoder call returned e
TripEncoded(name, e) ==
    /\ encMem' = e.mem
    /\ encErr' = e.err
    /\ encOp' = [encOp EXCEPT !.name = name, !.n = @ + 1,
                              !.ok = @ /\ e.err = "CborNoError",
                              !.oom = @ \/ e.err = "CborErrorOutOfMemory"]
    /\ UNCHANGED <<encBuf, encTotal, encItems, encExpected, encArg,
                   CBOR_ENCODER_NO_CHECK_USER, xvars>>

\* int64_t -1 - v in two's complement, for v below 2^32
MinusOneMinus(v) == <<65535 - (v % 65536), 65535 - (v \div 65536), 65535, 65535>>

\* cbor_value_get_int64, cbor_encode_int, cbor_value_advance_fixed
TripInteger ==
    /\ Running /\ encErr = "CborNoError"
    /\ ~cbor_value_at_end(Top.it)
    /\ Top.it.type = CborIntegerType
    /\ \E ub \in UB :
          LET v == _cbor_value_extract_int64_helper(Top.it, ub)
              value == IF CborIteratorFlag_NegativeInteger \in Top.it.flags
                       THEN MinusOneMinus(v) ELSE uint64(v)
              e == cbor_encode_int(EncTop, encMem, value)
          IN  /\ TripEncoded("cbor_encode_int", e)
              /\ enc' = [enc EXCEPT ![Len(enc)] = e.encoder]
              /\ Returned("cbor_value_advance_fixed", cbor_value_advance_fixed(Top.it, ub), TRUE)
    /\ UNCHANGED <<buf, NDEBUG, CBOR_PARSER_NO_STRICT_CHECKS, parserError, svars, xvars>>

\* cbor_encoder_create_array or cbor_encoder_create_map with the length the
\* cursor gives, then cbor_value_enter_container
TripEnter ==
    /\ Running /\ encErr = "CborNoError"
    /\ ~cbor_value_at_end(Top.it)
    /\ cbor_value_is_container(Top.it)
    /\ Len(stack) <= MaxLen
    /\ \E ub \in UB :
          LET length == IF cbor_value_is_length_known(Top.it)
                        THEN _cbor_value_extract_int64_helper(Top.it, ub)
                        ELSE CborIndefiniteLength
              e == IF Top.it.type = CborArrayType
                   THEN cbor_encoder_create_array(EncTop, encMem, length)
                   ELSE cbor_encoder_create_map(EncTop, encMem, length)
              r == cbor_value_enter_container(Top.it, ub)
          IN  /\ TripEncoded("create_container", e)
              /\ enc' = Append([enc EXCEPT ![Len(enc)] = e.encoder], e.container)
              /\ stack' = Append(stack, Frame(r.it, length, Top.it.ptr, Top.it.type))
              /\ err' = r.err
              /\ aborted' = (r.err = "Abort")
              /\ op' = [name |-> "cbor_value_enter_container", level |-> Len(stack) + 1,
                        atEnd |-> FALSE, from |-> Top.it.ptr, rem |-> Top.it.remaining]
    /\ UNCHANGED <<buf, NDEBUG, CBOR_PARSER_NO_STRICT_CHECKS, parserError, svars, xvars>>

\* cbor_encoder_close_container, then cbor_value_leave_container
TripLeave ==
    /\ Running /\ encErr = "CborNoError"
    /\ Len(stack) >= 2
    /\ cbor_value_at_end(Top.it)
    /\ \E ub \in UB :
          LET parent == stack[Len(stack) - 1]
              e == cbor_encoder_close_container(enc[Len(enc) - 1], encMem, EncTop)
              r == cbor_value_leave_container(parent.it, Top.it, ub)
          IN  /\ TripEncoded("cbor_encoder_close_container", e)
              /\ enc' = [SubSeq(enc, 1, Len(enc) - 1) EXCEPT ![Len(enc) - 1] = e.encoder]
              /\ stack' = [SubSeq(stack, 1, Len(stack) - 1) EXCEPT ![Len(stack) - 1] =
                              [@ EXCEPT !.it = r.it,
                                        !.adv = IF r.err = "CborNoError" THEN @ + 1 ELSE @]]
              /\ err' = r.err
              /\ aborted' = (r.err = "Abort")
              /\ op' = [name |-> "cbor_value_leave_container", level |-> Len(stack) - 1,
                        atEnd |-> FALSE, from |-> parent.it.ptr,
                        rem |-> parent.it.remaining]
    /\ UNCHANGED <<buf, NDEBUG, CBOR_PARSER_NO_STRICT_CHECKS, parserError, svars, xvars>>

NextTrip == ParserInit \/ TripInteger \/ TripEnter \/ TripLeave

SpecTrip == InitTrip /\ [][NextTrip]_vars

---------------------------------------------------------------------------
(* Claims.                                                                 *)

\* the frames of the cursors made by cbor_value_enter_container calls that
\* returned no error
Entered ==
    {i \in 2..Len(stack) :
        ~(i = Len(stack) /\ op.name = "cbor_value_enter_container" /\ err # "CborNoError")}

\* C1: on the child cursor of a definite-length container that declares N
\* items, after N successful advance calls at_end() is true, and a further
\* advance is an error (CborErrorAdvancePastEOF), never a success.
C1_ContainerCompletion ==
    \A i \in Entered :
        (stack[i].type = CborArrayType /\ stack[i].decl >= 0) =>
            /\ stack[i].adv <= stack[i].decl
            /\ stack[i].adv = stack[i].decl => cbor_value_at_end(stack[i].it)
            /\ (/\ i = Len(stack)
                /\ op.name \in {"cbor_value_advance", "cbor_value_advance_fixed"}
                /\ op.level = i
                /\ op.atEnd) => err = "CborErrorAdvancePastEOF"

\* the offset of the k-th item (from 0) of the container whose head is at p
NthItem(p, k) == ItemsEnd(p + HeadLen(SmallValueOf(buf[p + 1])), k)

\* the number of items the cursor of frame f has to visit, or -1 at a frame
\* of an indefinite-length container whose next item is not the break
ItemCount(f) ==
    CASE f.decl < 0 ->
            IF NthItem(f.start, f.adv) \in 0..(Len(buf) - 1)
               /\ buf[NthItem(f.start, f.adv) + 1] = BreakByte
            THEN f.adv ELSE -1
      [] f.type = CborMapType -> 2 * f.decl
      [] OTHER -> f.decl

AdvanceNames == {"cbor_value_advance", "cbor_value_advance_fixed"}

\* C2: on a well-formed input whose top-level item is an array or a map,
\* enter_container, leave_container and advance (on a cursor not at its end)
\* return no error, and every cursor stands on the item its count of
\* advances says: on the next encoded item, or at its end exactly when all
\* the items of its container have been visited.
C2_NestedContainers ==
    (WellFormed /\ stack # <<>> /\ MajorOf(buf[1]) \in {ArrayType, MapType}) =>
        /\ op.name \in {"cbor_value_enter_container", "cbor_value_leave_container"}
              => err = "CborNoError"
        /\ (op.name \in AdvanceNames /\ ~op.atEnd) => err = "CborNoError"
        /\ \A i \in Entered :
              (i < Len(stack) \/ err = "CborNoError") =>
                 IF cbor_value_at_end(stack[i].it)
                 THEN stack[i].adv = ItemCount(stack[i])
                 ELSE stack[i].it.ptr = NthItem(stack[i].start, stack[i].adv)

\* C3: on the root cursor of a well-formed input, remaining = 0 holds exactly
\* when the cursor is at the end of the buffer, and once the one top-level
\* item has been advanced past without error the cursor is at the end of the
\* buffer.
C3_TopLevelConsumed ==
    (WellFormed /\ stack # <<>> /\ ~aborted) =>
        /\ stack[1].it.remaining = 0 <=> stack[1].it.ptr = End
        /\ stack[1].adv = 1 => stack[1].it.ptr = End

\* C8: on a well-formed input, the child cursor of an indefinite-length array
\* or map is at its end
\* exactly when the byte after the last item advanced past is the break
\* 0xFF; entering an empty indefinite-length container returns no error and
\* leaves the child at its end.
C8_IndefiniteEnd ==
    WellFormed =>
    /\ \A i \in Entered :
          (/\ stack[i].decl < 0
           /\ i < Len(stack) \/ err = "CborNoError"
           /\ NthItem(stack[i].start, stack[i].adv) \in 0..(Len(buf) - 1)) =>
              (cbor_value_at_end(stack[i].it)
                 <=> buf[NthItem(stack[i].start, stack[i].adv) + 1] = BreakByte)
    /\ (/\ op.name = "cbor_value_enter_container"
        /\ Top.decl < 0
        /\ Top.start + 1 < Len(buf)
        /\ buf[Top.start + 2] = BreakByte) =>
              err = "CborNoError" /\ cbor_value_at_end(Top.it)

\* C9: leave_container on a well-formed container returns no error, leaves
\* the parent at the first byte after the whole container, and, when the
\* parent counts its items, with one item less remaining.
C9_LeaveContainer ==
    (op.name = "cbor_value_leave_container" /\ ItemEnd(op.from) >= 0) =>
        /\ err = "CborNoError"
        /\ Top.it.ptr = ItemEnd(op.from)
        /\ op.rem # UINT32_MAX => Top.it.remaining = op.rem - 1

\* C10: the child cursor of a definite-length map whose head declares n
\* pairs is at its end only after 2*n items have been advanced past.
C10_MapCountsPairs ==
    \A i \in Entered :
        (/\ stack[i].type = CborMapType
         /\ stack[i].decl >= 0
         /\ i < Len(stack) \/ err = "CborNoError"
         /\ cbor_value_at_end(stack[i].it)) => stack[i].adv = 2 * stack[i].decl


\* the buffer holds fewer bytes than the head at its start and the follow-on
\* bytes that head announces
TooShort ==
    \/ buf = <<>>
    \/ /\ SmallValueOf(buf[1]) \in Value8Bit..Value64Bit
       /\ Len(buf) < 1 + 2 ^ (SmallValueOf(buf[1]) - Value8Bit)

\* C6: a head byte whose additional information is 28, 29 or 30 makes
\* pre-parse report IllegalNumber or UnknownType, whatever its major type, and
\* the cursor stays on that byte.
C6_ReservedRejected ==
    (/\ op.name = "cbor_parser_init"
     /\ buf # <<>>
     /\ SmallValueOf(buf[1]) \in {28, 29, 30}) =>
        /\ err \in {"CborErrorIllegalNumber", "CborErrorUnknownType"}
        /\ Top.it.ptr = 0

\* C7: when the buffer is shorter than the head and its follow-on bytes (an
\* empty buffer included), pre-parse reports UnexpectedEOF and the cursor's
\* type is the invalid sentinel.
C7_UnexpectedEOF ==
    (op.name = "cbor_parser_init" /\ TooShort) =>
        /\ err = "CborErrorUnexpectedEOF"
        /\ Top.it.type = CborInvalidType

RECURSIVE SumOf(_)
SumOf(chs) == IF chs = <<>> THEN 0 ELSE Head(chs) + SumOf(Tail(chs))

\* C5: the total length of a chunked string whose chunk lengths sum to more
\* than SIZE_MAX is reported as DataTooLarge, and a total returned without
\* error is the sum of the chunk lengths, never that sum wrapped.
C5_OverflowSafety ==
    strErr # "none" =>
        /\ SumOf(chunks) > SIZE_MAX => strErr = "CborErrorDataTooLarge"
        /\ strErr = "CborNoError" => strTotal = SumOf(chunks)

\* DataTooLarge came from the addition that overflowed: the chunks before it
\* were added and their sum still fitted.
C5_Witness ==
    /\ strErr = "CborErrorDataTooLarge"
    /\ strN >= 1
    /\ SumOf(SubSeq(chunks, 1, strN)) <= SIZE_MAX
    /\ SumOf(SubSeq(chunks, 1, strN + 1)) > SIZE_MAX

\* C4: once the encodings of the operations made take more bytes than the
\* buffer holds, the encoder's end is null and extra_bytes_needed is exactly
\* the total less the capacity (so the append that first did not fit left
\* its own shortfall in ptr); before that nothing is reported missing.
C4_ExactShortfall ==
    enc # <<>> =>
        /\ encTotal > encBuf.size =>
              /\ EncTop.end = NULL
              /\ cbor_encoder_get_extra_bytes_needed(EncTop) = encTotal - encBuf.size
        /\ encTotal <= encBuf.size =>
              /\ cbor_encoder_get_extra_bytes_needed(EncTop) = 0
              /\ EncTop.ptr = encBuf.base + encTotal

\* an append that fitted only in part made the buffer run out, and later
\* operations, a container among them, went on adding to the shortfall
C4_Witness ==
    /\ Len(enc) >= 2
    /\ encBuf.size >= 2
    /\ encOp.n >= 3
    /\ encErr = "CborErrorOutOfMemory"
    /\ Len(encMem) >= 1 /\ Len(encMem) < encBuf.size
    /\ cbor_encoder_get_extra_bytes_needed(EncTop) = encTotal - encBuf.size

\* C4 as stated: once the total exceeds the capacity both ptr and end are
\* null and extra_bytes_needed is the total less the capacity.
C4_AsStated ==
    (enc # <<>> /\ encTotal > encBuf.size) =>
        /\ EncTop.ptr = NULL
        /\ EncTop.end = NULL
        /\ cbor_encoder_get_extra_bytes_needed(EncTop) = encTotal - encBuf.size


AllFits ==
    strOut.name = "cbor_value_calculate_string_length"
        \/ strOut.cap >= Len(Concatenation(strIn.chunks))

\* C11: a string call on a chunked string of type M one of whose chunks has
\* another major type returns CborErrorIllegalType (the buffer, if one was
\* given, being large enough for all the chunks).
C11_MixedChunksIllegal ==
    (/\ strOut.name # "none"
     /\ strIn.form = "chunked"
     /\ ~SameType(strIn)
     /\ AllFits) => strErr = "CborErrorIllegalType"

\* C12: for chunks all of type M, the chunked string and the definite-length
\* string holding their concatenation both yield that concatenation and its
\* length as the total, hence the same bytes and the same total.
C12_ChunkedEquivalence ==
    (strOut.name # "none" /\ SameType(strIn) /\ AllFits) =>
        /\ strErr = "CborNoError"
        /\ strTotal = Len(Concatenation(strIn.chunks))
        /\ strOut.name = "cbor_value_copy_string" =>
              SubSeq(strOut.bytes, 1, strTotal) = Concatenation(strIn.chunks)


\* the step is a cbor_encoder_close_container call
ClosingStep ==
    encOp'.name = "cbor_encoder_close_container" /\ encOp'.n = encOp.n + 1

\* the items the innermost container was declared to hold
DeclaredItems ==
    IF encItems[Len(enc)].map THEN 2 * encItems[Len(enc)].length
    ELSE encItems[Len(enc)].length

\* C13: closing a container created with a definite length succeeds only if
\* exactly the declared number of items (twice the pairs for a map) was
\* emitted into it; otherwise it returns ContainerNotCompleted.
C13_StrictClose ==
    [][(ClosingStep /\ encItems[Len(enc)].length # CborIndefiniteLength) =>
          IF encItems[Len(enc)].n = DeclaredItems
          THEN encErr' # "CborErrorContainerNotCompleted"
          ELSE encErr' = "CborErrorContainerNotCompleted"]_vars

C15_CallOrder ==
    (enc # <<>> /\ encOp.ok) =>
        /\ encMem = encExpected
        /\ encOp.name = "cbor_encoder_close_container" =>
              EncTop.ptr = encBuf.base + Len(encExpected)


\* C16: with user checking enabled, cbor_encode_simple_value returns
\* IllegalSimpleType and writes nothing for every value from 24 to 31, and
\* encodes every other value in one or two bytes.
C16_IllegalSimpleValues ==
    (encOp.name = "cbor_encode_simple_value" /\ ~CBOR_ENCODER_NO_CHECK_USER) =>
        IF encArg.u[1] \in 24..31
        THEN encErr = "CborErrorIllegalSimpleType" /\ encMem = <<>>
        ELSE encErr = "CborNoError" /\ Len(encMem) \in {1, 2}

\* the item's major type and 64-bit argument in a state that follows one call
CallArg ==
    CASE encOp.name = "cbor_encoder_create_array" -> Arg(ArrayType, uint64(encArg))
      [] encOp.name = "cbor_encoder_create_map" -> Arg(MapType, uint64(encArg))
      [] OTHER -> encArg

\* the number of bytes of the shortest head for the argument u
HeadBytesFor(u) ==
    CASE u[2] = 0 /\ u[3] = 0 /\ u[4] = 0 /\ u[1] < 24 -> 1
      [] u[2] = 0 /\ u[3] = 0 /\ u[4] = 0 /\ u[1] \in 24..255 -> 2
      [] u[2] = 0 /\ u[3] = 0 /\ u[4] = 0 /\ u[1] > 255 -> 3
      [] u[2] # 0 /\ u[3] = 0 /\ u[4] = 0 -> 5
      [] OTHER -> 9

\* C18: an unsigned value, a negative integer's magnitude, a tag, a simple
\* value the encoder accepts, and a string's or container's definite length
\* are encoded in 1, 2, 3, 5 or 9 bytes, the least their size allows, the
\* bytes after the first being the argument in big-endian order.
C18_ShortestForm ==
    (/\ encOp.n = 1
     /\ encErr # "CborErrorIllegalSimpleType"
     /\ ~(Len(enc) = 2 /\ encArg = CborIndefiniteLength)) =>
        LET n == HeadBytesFor(CallArg.u)
        IN  /\ encErr = "CborNoError"
            /\ Len(encMem) >= n
            /\ encMem[1] \div 32 = CallArg.m
            /\ n = 1 => encMem[1] % 32 = CallArg.u[1]
            /\ n > 1 =>
                  /\ 2 ^ ((encMem[1] % 32) - Value8Bit) = n - 1
                  /\ SubSeq(encMem, 2, n) = SubSeq(WordBytes(CallArg.u), 10 - n, 8)
            /\ encOp.name \notin {"cbor_encode_byte_string", "cbor_encode_text_string"}
                  => Len(encMem) = n

\* the negative integer -2^63 went out in nine bytes
C18_Witness ==
    /\ encOp.name = "cbor_encode_int"
    /\ encArg = Arg(NegativeIntegerType, <<65535, 65535, 65535, 32767>>)
    /\ encMem = <<59, 127, 255, 255, 255, 255, 255, 255, 255>>


\* C17: the head byte 0xF8 followed by a value byte v is pre-parsed as a
\* simple-type item whose value is v when v >= 32, and is rejected with
\* IllegalSimpleType in strict mode when v < 32.
C17_SimpleTypeInNextByte ==
    (op.name = "cbor_parser_init" /\ Len(buf) >= 2 /\ buf[1] = 248) =>
        IF buf[2] >= 32
        THEN /\ err = "CborNoError"
             /\ Top.it.type = CborSimpleType
             /\ Top.it.extra = buf[2]
        ELSE ~CBOR_PARSER_NO_STRICT_CHECKS => err = "CborErrorIllegalSimpleType"

\* the buffer starts with the head of a string or a container whose
\* additional information is 31
IndefiniteHead ==
    /\ buf # <<>>
    /\ MajorOf(buf[1]) \in {ByteStringType, TextStringType, ArrayType, MapType}
    /\ SmallValueOf(buf[1]) = IndefiniteLength

\* C20: for an item pre-parsed successfully, cbor_value_is_length_known is
\* false exactly when the head's additional information was 31, and then the
\* item is a string or a container of the head's type with UnknownLength set
\* and the cursor still on the head.
C20_IndefiniteLength ==
    (op.name = "cbor_parser_init" /\ buf # <<>> /\ err = "CborNoError") =>
        /\ ~cbor_value_is_length_known(Top.it) <=> SmallValueOf(buf[1]) = IndefiniteLength
        /\ SmallValueOf(buf[1]) = IndefiniteLength =>
              /\ IndefiniteHead
              /\ Top.it.flags = {CborIteratorFlag_UnknownLength}
              /\ Top.it.type = MajorTypeOf(buf[1])
              /\ Top.it.ptr = 0

\* an indefinite-length array head was accepted
C20_Witness ==
    /\ op.name = "cbor_parser_init"
    /\ err = "CborNoError"
    /\ buf = <<159>>
    /\ ~cbor_value_is_length_known(Top.it)
    /\ Top.it.type = CborArrayType


\* C19: once an operation has left an error kind in the parser context, a
\* later call on that cursor does not report success.
C19_StickyError ==
    [][(parserError # "CborNoError"
        /\ op'.name \in {"cbor_value_advance_fixed", "cbor_value_begin_recurse"})
          => err' # "true"]_vars


\* the number a run of bytes spells, most significant byte first
RECURSIVE BytesValue(_)
BytesValue(bs) ==
    IF bs = <<>> THEN 0 ELSE BytesValue(SubSeq(bs, 1, Len(bs) - 1)) * 256 + bs[Len(bs)]

\* the value the head at the start of the buffer encodes: the additional
\* information itself below 24, the follow-on bytes otherwise; the head F4
\* encodes the boolean false
EncodedValue ==
    LET ai == SmallValueOf(buf[1])
    IN  IF buf[1] = 244 THEN 0
        ELSE IF ai < Value8Bit THEN ai
        ELSE BytesValue(SubSeq(buf, 2, 1 + 2 ^ (ai - Value8Bit)))

ExtractedValue ==
    _cbor_value_extract_int64_helper(Top.it, [oob |-> 0, g |-> 0, trap |-> FALSE])

ShortestForm ==
    \A i \in 1..Len(buf) - 1 :
        (buf[i] = 24 /\ (i = 1 \/ buf[i - 1] # 24)) => buf[i + 1] >= 24

\* C22: parsing a well-formed input in shortest form and encoding each item
\* extracted, in order and in the definite or indefinite form observed,
\* raises no error and, once the root item has been passed, has produced the
\* input's bytes.
C22_RoundTrip ==
    ShortestForm =>
        /\ err = "CborNoError" /\ ~aborted
        /\ encErr = "CborNoError"
        /\ (stack # <<>> /\ Len(stack) = 1 /\ cbor_value_at_end(Top.it)) => encMem = buf


\* the bytes the last request exposed: len bytes of the buffer from the
\* pointer it returned
Exposed ==
    [i \in 1..fr.op.len |-> fr.context.buffer[fr.op.ptr + i]]

\* the file's bytes the last request asked for
Asked ==
    [i \in 1..fr.op.len |-> fr.context.file[fr.op.pos + i]]

\* C23: transfer_string returns either CborNoError, with the pointer on the
\* len bytes of the file at cursor + offset and the cursor just after them,
\* or CborErrorIO with the cursor where it was.
C23_TransferString ==
    fr.op.name = "transfer_string" =>
        \/ /\ fr.op.ret = "CborNoError"
           /\ fr.op.ptr # NullPtr
           /\ fr.op.ptr + fr.op.len <= fr.context.buffer_sz
           /\ Exposed = Asked
           /\ fr.token = fr.op.pos + fr.op.len
        \/ /\ fr.op.ret = "CborErrorIO"
           /\ fr.token = fr.op.from

\* C27: the read window stays inside the buffer and inside the file, and a
\* request that returns a pointer returns one to the file's bytes of the
\* region asked for.
C27_ReadWindow ==
    /\ ~fr.aborted
    /\ fr.context.used_sz <= fr.context.buffer_sz
    /\ fr.context.pos + fr.context.used_sz <= fr.context.file_sz
    /\ fr.op.ptr # NullPtr =>
          /\ fr.op.ptr + fr.op.len <= fr.context.buffer_sz
          /\ Exposed = Asked

\* C24: after any sequence of writer calls followed by a successful
\* filewriter_close, the file holds exactly the bytes passed to the writer,
\* in call order, each once; and the position counter never exceeds 64.
C24_WriterFile ==
    /\ fw.context.pos <= FILEWRITER_BUFFER_SZ
    /\ (fw.op.name = "close" /\ fw.op.ret = "CborNoError") =>
           fw.file = [i \in 1..fw.passed |-> DataByte(i)]


\* C25: cbor_value_copy_string into a buffer of capacity cap returns
\* CborErrorOutOfMemory whenever the length of the string, summed over its
\* chunks, exceeds cap; it never writes more than cap bytes; and on success
\* *buflen is the number of bytes copied and a NUL byte follows them exactly
\* when cap is larger than that number.
C25_CopyString ==
    (strOut.name = "cbor_value_copy_string" /\ SameType(strIn)) =>
        LET total == Len(Concatenation(strIn.chunks))
        IN  /\ total > strOut.cap => strErr = "CborErrorOutOfMemory"
            /\ Len(strOut.bytes) <= strOut.cap
            /\ strErr = "CborNoError" =>
                  /\ strTotal = total
                  /\ SubSeq(strOut.bytes, 1, total) = Concatenation(strIn.chunks)
                  /\ strOut.bytes = IF strOut.cap > total
                                    THEN Concatenation(strIn.chunks) \o <<0>>
                                    ELSE Concatenation(strIn.chunks)


IsPrefix(a, b) == Len(a) <= Len(b) /\ a = SubSeq(b, 1, Len(a))

\* C26: no encode operation writes a byte at or beyond the end of the
\* buffer; once an operation has returned CborErrorOutOfMemory no later
\* operation modifies the buffer; and the buffer's bytes are always a prefix
\* of the bytes of the items encoded.
C26_BoundedBuffer ==
    /\ [](Len(encMem) <= encBuf.size /\ IsPrefix(encMem, encOp.want))
    /\ [][encOp.oom => encMem' = encMem]_vars


C29_NestLevelOnError ==
    /\ [](~tpar.aborted => tpar.mNestLevel = tpar.entered)
    /\ [][(/\ tpar'.n = tpar.n + 1
           /\ tpar'.op.name \in {"enter_container", "leave_container"}
           /\ tpar'.op.ret \notin {"CborNoError", "Abort"})
          => (/\ tpar'.mNestLevel = tpar.mNestLevel
              /\ tpar'.mValues[tpar'.mNestLevel + 1] = tpar.mValues[tpar.mNestLevel + 1])]_vars

\* q is where a key of the map whose head is at m starts
KeyOf(m, q) ==
    /\ m >= 0 /\ m < Len(buf) /\ MajorOf(buf[m + 1]) = MapType
    /\ q >= 0 /\ q < Len(buf) /\ buf[q + 1] # BreakByte
    /\ \E i \in 0..Len(buf) :
          /\ SmallValueOf(buf[m + 1]) # IndefiniteLength => i < HeadValue(m)
          /\ NthItem(m, 2 * i) = q

\* the cursor in use is on an item: a text string that is a key of the
\* enclosing map
OnTextKey ==
    /\ tpar.mNestLevel # 0
    /\ TinyCursor.type # CborInvalidType /\ ~cbor_value_at_end(TinyCursor)
    /\ KeyOf(tpar.mValues[tpar.mNestLevel].ptr, TinyCursor.ptr)
    /\ MajorOf(buf[TinyCursor.ptr + 1]) = TextStringType

\* C30: after any sequence of advance, value-getter, enter_container and
\* leave_container calls, is_key() is true exactly when the current item is
\* a text string at a key position of the enclosing map.
C30_IsKey ==
    ~tpar.aborted => (tpar.mIsMapKey <=> OnTextKey)

=============================================================================
